---- MODULE Spec2Model ----
(***************************************************************************)
(* capsule-run: the supervised execution of one command in a sandbox.      *)
(*                                                                         *)
(* The model follows Executor::execute (src/src/executor/mod.rs): the      *)
(* Linux Sandbox::setup chain, the spawn, the batch and the streaming      *)
(* poll loops, the two I/O drainer threads of each mode, the resource      *)
(* monitor thread, the child process with its pipes, and the cgroup's      *)
(* oom_kill counter.  The supervisor is the process that continues after   *)
(* the fork of NamespaceManager::enter_namespaces.                         *)
(***************************************************************************)
EXTENDS Integers, Sequences, FiniteSets, TLC

(***************************************************************************)
(* Bounds of the model.                                                    *)
(***************************************************************************)
MaxOut == 2
MaxLimit == 1
PipeCap == 1
MaxOomKills == 1
MaxSamples == 2
MaxCleanups == 1
MaxBinds == 1
MaxChecks == 2
MaxTicks == 3
TimeoutTicks == 2
MaxPolls == 2
MaxIo == 2

(***************************************************************************)
(* Constants of the program.                                               *)
(***************************************************************************)
PollMs == 10
StreamingThresholdMs == 10000
BatchChunk == 4096
StreamChunk == 1024
MinMemoryBytes == 1048576
SIGKILL == 9
SIGPIPE == 13
SIGTERM == 15

Streams == {"stdout", "stderr"}

\* Byte values a child writes: "a" is an ASCII byte, "x" a byte that is not
\* valid UTF-8 on its own (0xFF).  The k-th byte the child writes to a
\* stream is fixed, so that a captured stream shows what was kept of it:
\* stdout is x a x a ..., stderr is a x a x ...
Payload(s, k) ==
    IF (s = "stdout") = (k % 2 = 1) THEN "x" ELSE "a"

\* Option<T>: None is the empty tuple, Some(v) a one-element tuple.
None == << >>
Some(v) == << v >>
IsSome(o) == Len(o) = 1
Get(o) == o[1]

Min(a, b) == IF a <= b THEN a ELSE b

(***************************************************************************)
(* Requests.  timeout_ms > 0, memory_bytes >= 1 MiB (api/validation.rs).   *)
(* One timeout on each side of the streaming threshold; isolation.network  *)
(* only matters to Sandbox::setup and is varied for one request.           *)
(***************************************************************************)
TimeoutValues == {2 * PollMs, StreamingThresholdMs + PollMs}

Requests ==
    [timeout_ms : TimeoutValues,
     max_output_bytes : 1..MaxLimit,
     memory_bytes : {MinMemoryBytes},
     network : {FALSE}]
    \cup
    [timeout_ms : {2 * PollMs},
     max_output_bytes : {1},
     memory_bytes : {2 * MinMemoryBytes},
     network : {TRUE}]

VARIABLES
    req,        \* the ExecutionRequest
    pc,         \* position of the supervisor in execute / execute_command
    setupLog,   \* setup steps started so far, with their outcome
    filter,     \* the seccomp filter: rules composed, and whether it is loaded
    now,        \* milliseconds since execute_command took start_time
    tick,       \* what the current poll tick has observed
    child,      \* the child process: state and exit code or signal
    killSent,   \* child.kill() has been called
    holder,     \* a descendant of the child holds the pipes' write ends open
    written,    \* bytes the child has written to each stream
    pipe,       \* bytes in flight in each pipe
    drainer,    \* state of each stream's drainer thread
    buf,        \* batch: the drainer's buffer
    total,      \* streaming: the drainer's total_size
    chan,       \* streaming: the events sent and not yet received
    sbuf,       \* streaming: stdout_buffer / stderr_buffer of the supervisor
    final,      \* streaming: stdout_data / stderr_data of collect_remaining
    monitor,    \* the resource monitor thread
    stop_flag,  \* the monitor's stop flag
    oom_kill,   \* the oom_kill counter of the cgroup's memory.events
    resp,       \* the ExecutionResponse returned by execute, once returned
    sandbox,    \* what the Sandbox holds on disk, and whether it was dropped
    mem,        \* monitoring_result.peak_memory, once the supervisor has it
    mon,        \* the monitoring loop in detail: its locals and its history
    poll,       \* the poll loop's clock and the child's time of termination
    ctl,        \* the sandbox controllers: the kernel files written, cleanups
    ns,         \* the two processes after the fork of enter_namespaces
    fs,         \* setup_isolation: its steps and the mounts made
    unit        \* components used on their own: their inputs and results

execVars == << req, pc, setupLog, filter, now, tick, child, killSent, holder,
               written, pipe, drainer, buf, total, chan, sbuf, final, monitor,
               stop_flag, oom_kill, resp, sandbox, mem >>

\* The variables of the specifications that follow one component in detail;
\* the specification of execute leaves them as they are.
unitVars == << mon, poll, ctl, ns, fs, unit >>

vars == << execVars, unitVars >>


IsStreaming(r) == r.timeout_ms > StreamingThresholdMs

\* A variant of the mapping with a code of its own.
ErrorCodeOfUnlisted(kind) == "E9999"

\* A variant of the mapping that gives every setup error the namespace code.
ErrorCodeOfFlat(kind) ==
    IF kind \in {"NamespaceCreation", "CgroupSetup", "SeccompSetup",
                 "FilesystemSetup", "CapabilityDrop", "UserMapping"}
    THEN "E2001" ELSE "E6003"

(***************************************************************************)
(* Error kinds and their codes (impl From<CapsuleError> for ErrorCode).    *)
(***************************************************************************)
ErrorCodeOf(kind) ==
    CASE kind = "Config"            -> "E1001"
      [] kind = "NamespaceCreation" -> "E2001"
      [] kind = "CgroupSetup"       -> "E2002"
      [] kind = "SeccompSetup"      -> "E2003"
      [] kind = "FilesystemSetup"   -> "E2004"
      [] kind = "CapabilityDrop"    -> "E2005"
      [] kind = "UserMapping"       -> "E2006"
      [] kind = "Timeout"           -> "E3001"
      [] kind = "Signal"            -> "E3002"
      [] kind = "SpawnFailed"       -> "E3003"
      [] kind = "IoCaptureError"    -> "E3004"
      [] kind = "MonitoringError"   -> "E3005"
      [] kind = "OutputSizeLimit"   -> "E3006"
      [] kind = "ResourceLimit"     -> "E4001"
      [] kind = "Security"          -> "E5001"
      [] kind = "Io"                -> "E6001"
      [] kind = "Json"              -> "E6002"
      [] kind = "Syscall"           -> "E6003"

signal_name(signal) ==
    CASE signal = SIGKILL -> "SIGKILL"
      [] signal = SIGPIPE -> "SIGPIPE"
      [] signal = SIGTERM -> "SIGTERM"
      [] OTHER -> "UNKNOWN"

(***************************************************************************)
(* Strings.  A String is a sequence of characters: "a", or "R" for U+FFFD. *)
(* as_bytes gives its UTF-8 bytes (U+FFFD is the three bytes EF BF BD) and *)
(* from_utf8_lossy decodes bytes, every invalid byte becoming U+FFFD.      *)
(***************************************************************************)
RECURSIVE as_bytes(_)
as_bytes(str) ==
    IF str = << >> THEN << >>
    ELSE (IF Head(str) = "R" THEN << "r1", "r2", "r3" >> ELSE << Head(str) >>)
         \o as_bytes(Tail(str))

RECURSIVE from_utf8_lossy(_)
from_utf8_lossy(bytes) ==
    IF bytes = << >> THEN << >>
    ELSE IF Head(bytes) = "a" THEN << "a" >> \o from_utf8_lossy(Tail(bytes))
    ELSE IF /\ Len(bytes) >= 3
            /\ SubSeq(bytes, 1, 3) = << "r1", "r2", "r3" >>
         THEN << "R" >> \o from_utf8_lossy(SubSeq(bytes, 4, Len(bytes)))
    ELSE << "R" >> \o from_utf8_lossy(Tail(bytes))

\* String::len(): the length in bytes.
StrLen(str) == Len(as_bytes(str))

(***************************************************************************)
(* ExecutionResponse::success / error / timeout (api/schema.rs).           *)
(***************************************************************************)
ResponseSuccess(exit_code, stdout, stderr, metrics, started, completed) ==
    [status |-> "Success",
     exit_code |-> Some(exit_code),
     stdout |-> Some(stdout),
     stderr |-> Some(stderr),
     metrics |-> Some(metrics),
     timestamps |-> [started |-> started, completed |-> completed],
     error |-> None]

\* A variant of ResponseError that also carries an exit code.
ResponseErrorWithExitCode(error, started, completed) ==
    [status |-> "Error",
     exit_code |-> Some(-1),
     stdout |-> None,
     stderr |-> None,
     metrics |-> None,
     timestamps |-> [started |-> started, completed |-> completed],
     error |-> Some(error)]

ResponseError(error, started, completed) ==
    [status |-> "Error",
     exit_code |-> None,
     stdout |-> None,
     stderr |-> None,
     metrics |-> None,
     timestamps |-> [started |-> started, completed |-> completed],
     error |-> Some(error)]

ResponseTimeout(timeout_ms, started, completed) ==
    [status |-> "Timeout",
     exit_code |-> None,
     stdout |-> None,
     stderr |-> None,
     metrics |-> None,
     timestamps |-> [started |-> started, completed |-> completed],
     error |-> Some([code |-> "E3001",
                     details |-> Some([timeout_ms |-> timeout_ms,
                                       elapsed_ms |-> completed - started])])]

\* execute: an Err(e) of setup or of execute_command becomes an Error
\* response with the mapped code and no details.
ResponseOfErr(kind, completed) ==
    ResponseError([code |-> ErrorCodeOf(kind), details |-> None], 0, completed)

SignalError(signal) ==
    [code |-> "E3003",
     details |-> Some([signal |-> signal, signal_name |-> signal_name(signal)])]

OomError(r) ==
    [code |-> "E4002",
     details |-> Some([memory_limit |-> r.memory_bytes])]

(***************************************************************************)
(* Sandbox::setup (Linux): the chain of steps, each ended by `?`.          *)
(***************************************************************************)
\* A variant of the chain that ends before the filter is loaded.
SetupChainNoApply ==
    << "setup_namespaces", "cgroup_setup", "setup_isolation",
       "seccomp_compose", "enter_namespaces", "drop_capabilities" >>

\* A variant of the chain that loads the filter before the capability drop.
SetupChainApplyEarly ==
    << "setup_namespaces", "cgroup_setup", "setup_isolation",
       "seccomp_compose", "enter_namespaces", "seccomp_apply",
       "drop_capabilities" >>

SetupChain ==
    << "setup_namespaces", "cgroup_setup", "setup_isolation",
       "seccomp_compose", "enter_namespaces", "drop_capabilities",
       "seccomp_apply" >>

\* The errors each step can return.
StepErrors(step) ==
    CASE step = "setup_namespaces"  -> {"NamespaceCreation", "UserMapping"}
      [] step = "cgroup_setup"      -> {"CgroupSetup"}
      [] step = "setup_isolation"   -> {"FilesystemSetup"}
      [] step = "seccomp_compose"   -> {"SeccompSetup"}
      [] step = "enter_namespaces"  -> {"NamespaceCreation"}
      [] step = "drop_capabilities" -> {"CapabilityDrop"}
      [] step = "seccomp_apply"     -> {"SeccompSetup"}

\* A variant of the composition that adds the network pack to every filter.
FilterAfterWithPack(step, f, r) ==
    CASE step = "seccomp_compose" ->
            [rules |-> {"allowlist", "network"}, loaded |-> FALSE]
      [] step = "seccomp_apply" -> [f EXCEPT !.loaded = TRUE]
      [] OTHER -> f

\* The filter after a step that succeeded: setup_allowlist, then the
\* network pack iff isolation.network; apply loads it.
FilterAfter(step, f, r) ==
    CASE step = "seccomp_compose" ->
            [rules |-> IF r.network THEN {"allowlist", "network"}
                       ELSE {"allowlist"},
             loaded |-> FALSE]
      [] step = "seccomp_apply" -> [f EXCEPT !.loaded = TRUE]
      [] OTHER -> f

(***************************************************************************)
(* What the Sandbox holds on disk.  leaf: the cgroup directory             *)
(* <cgroup2>/capsule-run/<id> exists; attached: the supervisor's pid was   *)
(* written to its cgroup.procs (add_current_process, the last step of      *)
(* CgroupManager::setup) and the process is a member since; rootfs: the    *)
(* directory /tmp/capsule-<id> exists; pivoted: pivot_root made it the     *)
(* root of the supervisor.  returned: execute has returned and dropped the *)
(* Executor; dropped: Sandbox::drop has run.                               *)
(***************************************************************************)
NoSandbox ==
    [leaf |-> FALSE, attached |-> FALSE, rootfs |-> FALSE, pivoted |-> FALSE,
     returned |-> FALSE, dropped |-> FALSE]

\* The records a step can leave behind.  A failing cgroup setup may have
\* created the leaf but has not attached the process; a failing filesystem
\* setup may have created the directory, and may have pivoted into it
\* (setup_working_directory and cleanup_old_root come after the pivot).
StepEffects(step, outcome, sb) ==
    CASE step = "cgroup_setup" /\ outcome = "ok" ->
            {[sb EXCEPT !.leaf = TRUE, !.attached = TRUE]}
      [] step = "cgroup_setup" /\ outcome # "ok" ->
            {[sb EXCEPT !.leaf = b] : b \in BOOLEAN}
      [] step = "setup_isolation" /\ outcome = "ok" ->
            {[sb EXCEPT !.rootfs = TRUE, !.pivoted = TRUE]}
      [] step = "setup_isolation" /\ outcome # "ok" ->
            {sb, [sb EXCEPT !.rootfs = TRUE],
             [sb EXCEPT !.rootfs = TRUE, !.pivoted = TRUE]}
      [] OTHER -> {sb}

\* CgroupManager::cleanup: remove_dir_all of the leaf if the path exists.
\* The kernel refuses to remove a cgroup that has member processes, and
\* the supervisor that runs the cleanup is a member once attached.
CgroupCleanupFails(sb) == sb.leaf /\ sb.attached

CgroupCleanup(sb) ==
    IF sb.leaf /\ ~sb.attached THEN [sb EXCEPT !.leaf = FALSE] ELSE sb

\* FilesystemManager::cleanup: remove_dir_all of root_path if the path
\* exists.  After the pivot the path /tmp/capsule-<id> is resolved in the
\* new root, where it names nothing, so nothing is removed.
FilesystemCleanup(sb) ==
    IF sb.rootfs /\ ~sb.pivoted THEN [sb EXCEPT !.rootfs = FALSE] ELSE sb

\* Sandbox::cleanup: the cgroup's cleanup, `?`, then the filesystem's.
SandboxCleanup(sb) ==
    IF CgroupCleanupFails(sb) THEN sb ELSE FilesystemCleanup(CgroupCleanup(sb))

\* Drop for Sandbox: cleanup with its result ignored, then the fields are
\* dropped, CgroupManager and FilesystemManager each running its cleanup.
SandboxDrop(sb) ==
    [FilesystemCleanup(CgroupCleanup(SandboxCleanup(sb)))
        EXCEPT !.dropped = TRUE]

(***************************************************************************)
(* The monitoring loop as it starts (ResourceMonitor::new and the locals   *)
(* of monitoring_loop), with the child running.  samples is the history of *)
(* the get_usage results, latched whether a check_oom_killed has returned  *)
(* Ok(true), high the largest memory use of the child so far, fresh        *)
(* whether a sample succeeded after the supervisor saw the child's exit.   *)
(***************************************************************************)
MonStart ==
    [pc |-> "check_stop", max_memory |-> 0, final_cpu_time |-> 0,
     oom_killed |-> FALSE, stop_flag |-> FALSE, result |-> None,
     samples |-> << >>, latched |-> FALSE,
     child |-> "running", usage |-> 0, high |-> 0,
     exit_seen |-> FALSE, fresh |-> FALSE, joined |-> FALSE]

(***************************************************************************)
(* The poll loop as it is entered, the child running: now is              *)
(* start_time.elapsed() in milliseconds, exit_at the time at which the     *)
(* child terminated (-1 while it runs), status the status of the response  *)
(* once the loop has returned.                                             *)
(***************************************************************************)
PollStart ==
    [pc |-> "timeout", now |-> 0, child |-> "running", exit_at |-> -1,
     killSent |-> FALSE, status |-> None]

(***************************************************************************)
(* The sandbox controllers before Sandbox::setup: nothing written, no      *)
(* cgroup leaf, no root directory.  log is the history of the operations   *)
(* on kernel files (namespaces.rs, cgroups.rs) with the value written and  *)
(* the outcome, attempts the history of the controllers' cleanup calls,    *)
(* next the index of the operation setup comes to next, calls the number   *)
(* of calls of Sandbox::cleanup made from outside the destructor.          *)
(***************************************************************************)
CtlStart ==
    [pc |-> "new", cpu_shares |-> 0, next |-> 1, log |-> << >>,
     err |-> None, leaf |-> FALSE, attached |-> FALSE, rootfs |-> FALSE,
     attempts |-> << >>, calls |-> 0]

(***************************************************************************)
(* The process that calls NamespaceManager::enter_namespaces, before the   *)
(* fork: parent and child are the positions of the two processes, ran the  *)
(* steps of the chain each process has run after the fork, status the      *)
(* wait status of the forked child once it has terminated, code the exit   *)
(* code of the parent once it has exited.                                  *)
(***************************************************************************)
NsStart ==
    [parent |-> "fork", child |-> "none", forked |-> FALSE, ran |-> {},
     status |-> None, code |-> None]

(***************************************************************************)
(* The filesystem manager before setup_isolation: config is the            *)
(* IsolationConfig it will be called with, next the index of the step it   *)
(* comes to next, log the steps started with their outcome, mounts the     *)
(* mounts made on each location under the new root, the last one on top.   *)
(***************************************************************************)
FsStart ==
    [pc |-> "new",
     config |-> [readonly_paths |-> {}, writable_paths |-> {},
                 bind_mounts |-> << >>],
     next |-> 1, log |-> << >>, err |-> None,
     mounts |-> [p \in {"/data", "/etc", "/missing"} |-> << >>]]

(***************************************************************************)
(* Components used on their own.  mac is the MacOSSandbox: its             *)
(* process_limits.max_memory_bytes (None after new), the memory_bytes its  *)
(* get_resource_usage reads, and the result of check_oom_killed once it    *)
(* has been called.  tm is a TimeoutMonitor as new returns it: now the     *)
(* time since start_time in ticks (the timeout is TimeoutTicks), sent      *)
(* whether its thread has sent, queue the messages in its channel, calls   *)
(* the check_timeout calls made, each with its time, with whether the      *)
(* thread had sent before, and with its result.  pm is a ProcessMonitor    *)
(* for a process that runs: the position of its thread, the platform of    *)
(* the build, whether the pid is a child of the caller, the stop flag, the *)
(* number of polls made, the thread's result, and the status that          *)
(* stop_and_get_status has returned.  io is the I/O accounting of a batch  *)
(* run: the child with its cumulative read_bytes and write_bytes, the      *)
(* supervisor's position, and the io fields of the metrics once built.     *)
(* cli is a call of parse_size: its argument and its outcome.              *)
(***************************************************************************)
UnitStart ==
    [mac |-> [pc |-> "new", max_memory_bytes |-> None, memory_bytes |-> 0,
              result |-> None],
     tm |-> [now |-> 0, sent |-> FALSE, queue |-> 0, calls |-> << >>],
     pm |-> [pc |-> "new", linux |-> TRUE, is_child |-> TRUE,
             stop_flag |-> FALSE, polls |-> 0, result |-> None,
             status |-> None],
     io |-> [pc |-> "try_wait", child |-> "running", read_bytes |-> 0,
             write_bytes |-> 0, metrics |-> None],
     cli |-> [pc |-> "new", size_str |-> << None, "" >>, result |-> None]]

\* What a poll tick has observed: the elapsed time its first check read,
\* the result of try_wait, and the oom_kill count its OOM check read
\* (-1, "unchecked", -1 before the observation).
NoTick == [elapsed |-> -1, wait |-> "unchecked", oom |-> -1]

Init ==
    /\ req \in Requests
    /\ pc = "setup"
    /\ setupLog = << >>
    /\ filter = [rules |-> {}, loaded |-> FALSE]
    /\ now = 0
    /\ tick = NoTick
    /\ child = [st |-> "none", val |-> 0]
    /\ killSent = FALSE
    /\ holder = FALSE
    /\ written = [s \in Streams |-> 0]
    /\ pipe = [s \in Streams |-> << >>]
    /\ drainer = [s \in Streams |-> "none"]
    /\ buf = [s \in Streams |-> << >>]
    /\ total = [s \in Streams |-> 0]
    /\ chan = [s \in Streams |-> << >>]
    /\ sbuf = [s \in Streams |-> << >>]
    /\ final = [s \in Streams |-> << >>]
    /\ monitor = "none"
    /\ stop_flag = FALSE
    /\ oom_kill = 0
    /\ resp = None
    /\ sandbox = NoSandbox
    /\ mem = None
    /\ mon = MonStart
    /\ ctl = CtlStart
    /\ poll = PollStart
    /\ unit = UnitStart
    /\ fs = FsStart
    /\ ns = NsStart

ioVars == << written, pipe, drainer, buf, total, chan, sbuf, final >>
childVars == << child, killSent, holder >>
monVars == << monitor, stop_flag >>

(***************************************************************************)
(* Sandbox::setup, one step of the chain at a time.  A failing step ends   *)
(* the chain: execute returns the Error response of its error.             *)
(***************************************************************************)
SetupStep ==
    /\ pc = "setup"
    /\ Len(setupLog) < Len(SetupChain)
    /\ LET step == SetupChain[Len(setupLog) + 1] IN
       \E outcome \in {"ok"} \cup StepErrors(step) :
          /\ setupLog' = Append(setupLog, [step |-> step, outcome |-> outcome])
          /\ sandbox' \in StepEffects(step, outcome, sandbox)
          /\ IF outcome = "ok"
             THEN /\ filter' = FilterAfter(step, filter, req)
                  /\ pc' = IF Len(setupLog) + 1 = Len(SetupChain)
                           THEN "spawn" ELSE "setup"
                  /\ resp' = resp
             ELSE /\ filter' = filter
                  /\ pc' = "done"
                  /\ resp' = Some(ResponseOfErr(outcome, now))
    /\ UNCHANGED unitVars
    /\ UNCHANGED << req, mem, now, tick, oom_kill >>
    /\ UNCHANGED ioVars /\ UNCHANGED childVars /\ UNCHANGED monVars

(***************************************************************************)
(* execute_command up to the loop: spawn, then the I/O capture of the      *)
(* mode (and, in batch mode, the resource monitor) is started.             *)
(***************************************************************************)
Spawn ==
    /\ pc = "spawn"
    /\ \/ /\ child' = [st |-> "running", val |-> 0]
          /\ drainer' = [s \in Streams |-> "reading"]
          /\ monitor' = IF IsStreaming(req) THEN "none" ELSE "running"
          /\ pc' = IF IsStreaming(req) THEN "s_timeout" ELSE "b_timeout"
          /\ resp' = resp
       \/ /\ resp' = Some(ResponseOfErr("SpawnFailed", now))
          /\ pc' = "done"
          /\ UNCHANGED << child, drainer, monitor >>
    /\ UNCHANGED unitVars
    /\ UNCHANGED << req, sandbox, mem,
                    setupLog, filter, now, tick, killSent, holder,
                    written, pipe, buf, total, chan, sbuf, final, stop_flag,
                    oom_kill >>


(***************************************************************************)
(* The child process and the kernel.                                       *)
(***************************************************************************)
ExitCodes == {0, 1}
ExternalSignals == {SIGTERM}

Running == child.st = "running"

\* A stream's pipe has a writer while the child or a descendant holds it.
HasWriter == Running \/ holder

\* The read end is owned by the drainer's read loop and closed when the
\* loop returns (capture_stream / stream_capture drop `stream`).
ReadEndOpen(s) == drainer[s] = "reading"

\* write(2) of one byte on a pipe with room.
ChildWrite(s) ==
    /\ resp = None
    /\ Running
    /\ written[s] < MaxOut
    /\ ReadEndOpen(s)
    /\ Len(pipe[s]) < PipeCap
    /\ pipe' = [pipe EXCEPT ![s] = Append(@, Payload(s, written[s] + 1))]
    /\ written' = [written EXCEPT ![s] = @ + 1]
    /\ UNCHANGED unitVars
    /\ UNCHANGED << req, sandbox, mem,
                    pc, setupLog, filter, now, tick, drainer, buf,
                    total, chan, sbuf, final, oom_kill, resp >>
    /\ UNCHANGED childVars /\ UNCHANGED monVars

\* write(2) on a pipe whose read end is closed: nothing is written and
\* SIGPIPE ends the child.
ChildSigpipe(s) ==
    /\ resp = None
    /\ Running
    /\ ~ReadEndOpen(s)
    /\ child' = [st |-> "signaled", val |-> SIGPIPE]
    /\ holder' \in BOOLEAN
    /\ UNCHANGED unitVars
    /\ UNCHANGED << req, sandbox, mem,
                    pc, setupLog, filter, now, tick, killSent,
                    oom_kill, resp >>
    /\ UNCHANGED ioVars /\ UNCHANGED monVars

\* The child exits; a descendant may keep the pipes open.
ChildExit ==
    /\ resp = None
    /\ Running
    /\ \E code \in ExitCodes : child' = [st |-> "exited", val |-> code]
    /\ holder' \in BOOLEAN
    /\ UNCHANGED unitVars
    /\ UNCHANGED << req, sandbox, mem,
                    pc, setupLog, filter, now, tick, killSent,
                    oom_kill, resp >>
    /\ UNCHANGED ioVars /\ UNCHANGED monVars

\* The child is killed by a signal sent from outside.
ChildSignaled ==
    /\ resp = None
    /\ Running
    /\ \E sig \in ExternalSignals : child' = [st |-> "signaled", val |-> sig]
    /\ holder' \in BOOLEAN
    /\ UNCHANGED unitVars
    /\ UNCHANGED << req, sandbox, mem,
                    pc, setupLog, filter, now, tick, killSent,
                    oom_kill, resp >>
    /\ UNCHANGED ioVars /\ UNCHANGED monVars

\* The descendant holding the pipes exits.
DescendantExit ==
    /\ resp = None
    /\ holder
    /\ ~Running
    /\ holder' = FALSE
    /\ UNCHANGED unitVars
    /\ UNCHANGED << req, sandbox, mem,
                    pc, setupLog, filter, now, tick, child, killSent,
                    oom_kill, resp >>
    /\ UNCHANGED ioVars /\ UNCHANGED monVars

\* The kernel's OOM killer acts in the cgroup while the child runs:
\* memory.events' oom_kill grows, and the victim (SIGKILL) is the child or
\* another process of the cgroup.
OomKill ==
    /\ resp = None
    /\ Running
    /\ oom_kill < MaxOomKills
    /\ oom_kill' = oom_kill + 1
    /\ \/ /\ child' = [st |-> "signaled", val |-> SIGKILL]
          /\ holder' \in BOOLEAN
       \/ UNCHANGED << child, holder >>
    /\ UNCHANGED unitVars
    /\ UNCHANGED << req, sandbox, mem,
                    pc, setupLog, filter, now, tick, killSent, resp >>
    /\ UNCHANGED ioVars /\ UNCHANGED monVars

(***************************************************************************)
(* Batch drainer: IoCapture::capture_stream, one read per step.  A read    *)
(* that fails with an error other than EINTR is not modelled.              *)
(***************************************************************************)
BatchRead(s) ==
    /\ resp = None
    /\ ~IsStreaming(req)
    /\ drainer[s] = "reading"
    /\ pipe[s] # << >>
    /\ LET n == Min(Len(pipe[s]), BatchChunk) IN
       /\ pipe' = [pipe EXCEPT ![s] = SubSeq(@, n + 1, Len(@))]
       /\ IF Len(buf[s]) + n > req.max_output_bytes
          THEN /\ drainer' = [drainer EXCEPT ![s] = "OutputSizeLimit"]
               /\ buf' = buf
          ELSE /\ buf' = [buf EXCEPT ![s] = @ \o SubSeq(pipe[s], 1, n)]
               /\ drainer' = drainer
    /\ UNCHANGED unitVars
    /\ UNCHANGED << req, sandbox, mem,
                    pc, setupLog, filter, now, tick, written, total,
                    chan, sbuf, final, oom_kill, resp >>
    /\ UNCHANGED childVars /\ UNCHANGED monVars

\* read returns 0: no byte in the pipe and no writer left.
BatchEof(s) ==
    /\ resp = None
    /\ ~IsStreaming(req)
    /\ drainer[s] = "reading"
    /\ pipe[s] = << >>
    /\ ~HasWriter
    /\ drainer' = [drainer EXCEPT ![s] = "Ok"]
    /\ UNCHANGED unitVars
    /\ UNCHANGED << req, sandbox, mem,
                    pc, setupLog, filter, now, tick, written, pipe, buf,
                    total, chan, sbuf, final, oom_kill, resp >>
    /\ UNCHANGED childVars /\ UNCHANGED monVars

(***************************************************************************)
(* Streaming drainer: StreamingIoCapture::stream_capture.                  *)
(***************************************************************************)
DataEvent(bytes) == << "Data", bytes >>
ErrorEvent(msg) == << "Error", msg >>
EofEvent == << "Eof" >>

\* collect_remaining owns the receivers: each is dropped when its loop ends.
ReceiverOpen(s) ==
    IF s = "stdout"
    THEN pc \in {"s_timeout", "s_wait", "s_recv_out", "s_recv_err", "s_oom",
                 "s_sleep", "s_drain_out"}
    ELSE pc \in {"s_timeout", "s_wait", "s_recv_out", "s_recv_err", "s_oom",
                 "s_sleep", "s_drain_out", "s_drain_err"}

\* A variant of the drainer whose channel holds one event (sync_channel):
\* the drainer reads the pipe only when the supervisor has taken the last
\* event.
StreamReadBounded(s) ==
    /\ resp = None
    /\ IsStreaming(req)
    /\ drainer[s] = "reading"
    /\ pipe[s] # << >>
    /\ chan[s] = << >>
    /\ LET n == Min(Len(pipe[s]), StreamChunk) IN
       /\ pipe' = [pipe EXCEPT ![s] = SubSeq(@, n + 1, Len(@))]
       /\ total' = [total EXCEPT ![s] = @ + n]
       /\ IF total[s] + n > req.max_output_bytes
          THEN /\ chan' = [chan EXCEPT ![s] =
                              IF ReceiverOpen(s)
                              THEN Append(@, ErrorEvent("limit")) ELSE @]
               /\ drainer' = [drainer EXCEPT ![s] = "done"]
          ELSE IF ReceiverOpen(s)
          THEN /\ chan' = [chan EXCEPT ![s] =
                              Append(@, DataEvent(SubSeq(pipe[s], 1, n)))]
               /\ drainer' = drainer
          ELSE /\ chan' = chan
               /\ drainer' = [drainer EXCEPT ![s] = "done"]
    /\ UNCHANGED unitVars
    /\ UNCHANGED << req, sandbox, mem,
                    pc, setupLog, filter, now, tick, written, buf, sbuf,
                    final, oom_kill, resp >>
    /\ UNCHANGED childVars /\ UNCHANGED monVars

\* One read of stream_capture; `tx.send` on the unbounded channel never
\* blocks.
StreamRead(s) ==
    /\ resp = None
    /\ IsStreaming(req)
    /\ drainer[s] = "reading"
    /\ pipe[s] # << >>
    /\ LET n == Min(Len(pipe[s]), StreamChunk) IN
       /\ pipe' = [pipe EXCEPT ![s] = SubSeq(@, n + 1, Len(@))]
       /\ total' = [total EXCEPT ![s] = @ + n]
       /\ IF total[s] + n > req.max_output_bytes
          THEN /\ chan' = [chan EXCEPT ![s] =
                              IF ReceiverOpen(s)
                              THEN Append(@, ErrorEvent("limit")) ELSE @]
               /\ drainer' = [drainer EXCEPT ![s] = "done"]
          ELSE IF ReceiverOpen(s)
          THEN /\ chan' = [chan EXCEPT ![s] =
                              Append(@, DataEvent(SubSeq(pipe[s], 1, n)))]
               /\ drainer' = drainer
          ELSE /\ chan' = chan
               /\ drainer' = [drainer EXCEPT ![s] = "done"]
    /\ UNCHANGED unitVars
    /\ UNCHANGED << req, sandbox, mem,
                    pc, setupLog, filter, now, tick, written, buf, sbuf,
                    final, oom_kill, resp >>
    /\ UNCHANGED childVars /\ UNCHANGED monVars

StreamEof(s) ==
    /\ resp = None
    /\ IsStreaming(req)
    /\ drainer[s] = "reading"
    /\ pipe[s] = << >>
    /\ ~HasWriter
    /\ chan' = [chan EXCEPT ![s] =
                   IF ReceiverOpen(s) THEN Append(@, EofEvent) ELSE @]
    /\ drainer' = [drainer EXCEPT ![s] = "done"]
    /\ UNCHANGED unitVars
    /\ UNCHANGED << req, sandbox, mem,
                    pc, setupLog, filter, now, tick, written, pipe, buf,
                    total, sbuf, final, oom_kill, resp >>
    /\ UNCHANGED childVars /\ UNCHANGED monVars

(***************************************************************************)
(* check_oom_killed: the oom_kill line of memory.events, count > 0.        *)
(***************************************************************************)
\* A variant of check_oom_killed that needs a second kill.
check_oom_killed_twice(count) == count > 1

check_oom_killed(count) == count > 0

(***************************************************************************)
(* ResourceMonitor::monitoring_loop: leaves the loop when the stop flag is *)
(* set, or when check_oom_killed is true after a sample.  Its result's     *)
(* peak_memory is the maximum of the memory_bytes of the samples taken, 0  *)
(* if no sample succeeded; the supervisor receives the result when it      *)
(* joins the thread in stop_and_get_result.                                *)
(***************************************************************************)
\* The values memory.current is read as: 0 (also what a failed reading
\* counts as) and two amounts of memory in use.
MemoryReadings == {0, MinMemoryBytes, 2 * MinMemoryBytes}

MonitorExit ==
    /\ resp = None
    /\ monitor = "running"
    /\ stop_flag \/ check_oom_killed(oom_kill)
    /\ monitor' = "finished"
    /\ UNCHANGED unitVars
    /\ UNCHANGED << req, sandbox, mem,
                    pc, setupLog, filter, now, tick, stop_flag,
                    oom_kill, resp >>
    /\ UNCHANGED ioVars /\ UNCHANGED childVars


(***************************************************************************)
(* Time.  `now` is start_time.elapsed() in milliseconds; it advances in    *)
(* the supervisor's sleep (by PollMs at least) and while it works.         *)
(***************************************************************************)
Instants(r) ==
    {0, r.timeout_ms - PollMs, r.timeout_ms, r.timeout_ms + PollMs}

\* Time passes within a tick, after its first check.
Advance ==
    /\ resp = None
    /\ pc \in {"b_wait", "s_wait"}
    /\ \E t \in Instants(req) :
          /\ t > now
          /\ t <= req.timeout_ms
          /\ now' = t
    /\ UNCHANGED unitVars
    /\ UNCHANGED << req, sandbox, mem,
                    pc, setupLog, filter, tick, oom_kill, resp >>
    /\ UNCHANGED ioVars /\ UNCHANGED childVars /\ UNCHANGED monVars

\* tokio::time::sleep(10 ms): at least PollMs pass.
Sleep(next) ==
    /\ \E t \in Instants(req) :
          /\ t >= now + PollMs
          /\ now' = t
    /\ pc' = next

\* A variant of the kill that sends nothing.
KillChildNot == UNCHANGED << child, killSent, holder >>

\* child.kill(): SIGKILL to the child if it still runs.
KillChild ==
    /\ killSent' = TRUE
    /\ IF Running
       THEN /\ child' = [st |-> "signaled", val |-> SIGKILL]
            /\ holder' \in BOOLEAN
       ELSE UNCHANGED << child, holder >>

\* child.try_wait(): None while the child runs; afterwards its status, or
\* an error when the status was already collected by the SIGCHLD handler of
\* setup_pid_namespace (waitpid(-1) loop), which leaves ECHILD.
TryWaitResults ==
    IF Running THEN {"running"} ELSE {child.st, "error"}

\* The first check of a tick: start_time.elapsed() >= timeout_duration.
\* Variants of the deadline test: a strict comparison, and one that lets a
\* recorded OOM kill pass before the deadline.
DeadlinePassedStrict(elapsed, r) == elapsed > r.timeout_ms

DeadlinePassedUnlessOom(elapsed, r) ==
    elapsed >= r.timeout_ms /\ ~check_oom_killed(oom_kill)

DeadlinePassed(elapsed, r) == elapsed >= r.timeout_ms

StartTick == [NoTick EXCEPT !.elapsed = now]

Metrics(memory_bytes) ==
    [wall_time_ms |-> now, max_memory_bytes |-> memory_bytes]

(***************************************************************************)
(* execute_command: the batch poll loop.                                   *)
(***************************************************************************)
BatchCheckTimeout ==
    /\ pc = "b_timeout"
    /\ tick' = StartTick
    /\ IF DeadlinePassed(now, req)
       THEN /\ KillChild
            /\ stop_flag' = TRUE
            /\ pc' = "b_timeout_join"
       ELSE /\ pc' = "b_wait"
            /\ UNCHANGED << child, killSent, holder, stop_flag >>
    /\ UNCHANGED unitVars
    /\ UNCHANGED << req, sandbox, mem,
                    setupLog, filter, now, monitor, oom_kill, resp >>
    /\ UNCHANGED ioVars

\* stop_and_get_result has joined the monitor: the Timeout response.
BatchTimeoutReturn ==
    /\ pc = "b_timeout_join"
    /\ monitor = "finished"
    /\ resp' = Some(ResponseTimeout(req.timeout_ms, 0, now))
    /\ pc' = "done"
    /\ UNCHANGED unitVars
    /\ UNCHANGED << req, sandbox, mem, setupLog, filter, now, tick, oom_kill >>
    /\ UNCHANGED ioVars /\ UNCHANGED childVars /\ UNCHANGED monVars

BatchTryWait ==
    /\ pc = "b_wait"
    /\ \E r \in TryWaitResults :
          /\ tick' = [tick EXCEPT !.wait = r]
          /\ CASE r = "running" ->
                    /\ pc' = "b_oom"
                    /\ UNCHANGED << resp, child, killSent, holder >>
               [] r = "signaled" ->
                    /\ resp' = Some(ResponseError(SignalError(child.val), 0, now))
                    /\ pc' = "done"
                    /\ UNCHANGED << child, killSent, holder >>
               [] r = "exited" ->
                    /\ pc' = "b_join_out"
                    /\ UNCHANGED << resp, child, killSent, holder >>
               [] r = "error" ->
                    /\ KillChild
                    /\ resp' = Some(ResponseOfErr("MonitoringError", now))
                    /\ pc' = "done"
    /\ UNCHANGED unitVars
    /\ UNCHANGED << req, sandbox, mem, setupLog, filter, now, oom_kill >>
    /\ UNCHANGED ioVars /\ UNCHANGED monVars

\* wait_for_completion: join the stream's drainer and apply `??`.
BatchJoin(s, next) ==
    /\ drainer[s] # "reading"
    /\ IF drainer[s] = "Ok"
       THEN /\ pc' = next
            /\ resp' = resp
       ELSE /\ resp' = Some(ResponseOfErr(drainer[s], now))
            /\ pc' = "done"
    /\ UNCHANGED unitVars
    /\ UNCHANGED << req, sandbox, mem, setupLog, filter, now, tick, oom_kill >>
    /\ UNCHANGED ioVars /\ UNCHANGED childVars /\ UNCHANGED monVars

BatchJoinStdout ==
    /\ pc = "b_join_out"
    /\ BatchJoin("stdout", "b_join_err")

BatchJoinStderr ==
    /\ pc = "b_join_err"
    /\ BatchJoin("stderr", "b_stop_monitor")

BatchStopMonitor ==
    /\ pc = "b_stop_monitor"
    /\ stop_flag' = TRUE
    /\ pc' = "b_join_monitor"
    /\ UNCHANGED unitVars
    /\ UNCHANGED << req, sandbox, mem,
                    setupLog, filter, now, tick, monitor, oom_kill, resp >>
    /\ UNCHANGED ioVars /\ UNCHANGED childVars

BatchSuccess ==
    /\ pc = "b_join_monitor"
    /\ monitor = "finished"
    /\ \E peak_memory \in MemoryReadings :
          /\ mem' = Some(peak_memory)
          /\ resp' = Some(ResponseSuccess(child.val,
                                          from_utf8_lossy(buf["stdout"]),
                                          from_utf8_lossy(buf["stderr"]),
                                          Metrics(peak_memory), 0, now))
    /\ pc' = "done"
    /\ UNCHANGED unitVars
    /\ UNCHANGED << req, sandbox, setupLog, filter, now, tick, oom_kill >>
    /\ UNCHANGED ioVars /\ UNCHANGED childVars /\ UNCHANGED monVars

BatchCheckOom ==
    /\ pc = "b_oom"
    /\ tick' = [tick EXCEPT !.oom = oom_kill]
    /\ IF check_oom_killed(oom_kill)
       THEN /\ KillChild
            /\ stop_flag' = TRUE
            /\ pc' = "b_oom_join"
       ELSE /\ pc' = "b_sleep"
            /\ UNCHANGED << child, killSent, holder, stop_flag >>
    /\ UNCHANGED unitVars
    /\ UNCHANGED << req, sandbox, mem,
                    setupLog, filter, now, monitor, oom_kill, resp >>
    /\ UNCHANGED ioVars

BatchOomReturn ==
    /\ pc = "b_oom_join"
    /\ monitor = "finished"
    /\ resp' = Some(ResponseError(OomError(req), 0, now))
    /\ pc' = "done"
    /\ UNCHANGED unitVars
    /\ UNCHANGED << req, sandbox, mem, setupLog, filter, now, tick, oom_kill >>
    /\ UNCHANGED ioVars /\ UNCHANGED childVars /\ UNCHANGED monVars

BatchSleep ==
    /\ pc = "b_sleep"
    /\ Sleep("b_timeout")
    /\ UNCHANGED unitVars
    /\ UNCHANGED << req, sandbox, mem,
                    setupLog, filter, tick, oom_kill, resp >>
    /\ UNCHANGED ioVars /\ UNCHANGED childVars /\ UNCHANGED monVars


(***************************************************************************)
(* execute_with_streaming_io: the streaming poll loop.                     *)
(***************************************************************************)
StreamCheckTimeout ==
    /\ pc = "s_timeout"
    /\ tick' = StartTick
    /\ IF DeadlinePassed(now, req)
       THEN /\ KillChild
            /\ resp' = Some(ResponseTimeout(req.timeout_ms, 0, now))
            /\ pc' = "done"
       ELSE /\ pc' = "s_wait"
            /\ UNCHANGED << child, killSent, holder, resp >>
    /\ UNCHANGED unitVars
    /\ UNCHANGED << req, sandbox, mem, setupLog, filter, now, oom_kill >>
    /\ UNCHANGED ioVars /\ UNCHANGED monVars

StreamTryWait ==
    /\ pc = "s_wait"
    /\ \E r \in TryWaitResults :
          /\ tick' = [tick EXCEPT !.wait = r]
          /\ CASE r = "running" ->
                    /\ pc' = "s_recv_out"
                    /\ UNCHANGED << resp, child, killSent, holder >>
               [] r \in {"exited", "signaled"} ->
                    /\ pc' = "s_drain_out"
                    /\ UNCHANGED << resp, child, killSent, holder >>
               [] r = "error" ->
                    /\ KillChild
                    /\ resp' = Some(ResponseOfErr("MonitoringError", now))
                    /\ pc' = "done"
    /\ UNCHANGED unitVars
    /\ UNCHANGED << req, sandbox, mem, setupLog, filter, now, oom_kill >>
    /\ UNCHANGED ioVars /\ UNCHANGED monVars

\* read_available: one recv_timeout on the stream's channel; only a Data
\* event is used, any other event received is dropped.
StreamRecv(s, next) ==
    /\ IF chan[s] = << >>
       THEN UNCHANGED << chan, sbuf >>
       ELSE /\ chan' = [chan EXCEPT ![s] = Tail(@)]
            /\ sbuf' = IF Head(chan[s])[1] = "Data"
                       THEN [sbuf EXCEPT ![s] = @ \o Head(chan[s])[2]]
                       ELSE sbuf
    /\ pc' = next
    /\ UNCHANGED unitVars
    /\ UNCHANGED << req, sandbox, mem,
                    setupLog, filter, now, tick, written, pipe, drainer,
                    buf, total, final, oom_kill, resp >>
    /\ UNCHANGED childVars /\ UNCHANGED monVars

StreamRecvStdout ==
    /\ pc = "s_recv_out"
    /\ StreamRecv("stdout", "s_recv_err")

StreamRecvStderr ==
    /\ pc = "s_recv_err"
    /\ StreamRecv("stderr", "s_oom")

StreamCheckOom ==
    /\ pc = "s_oom"
    /\ tick' = [tick EXCEPT !.oom = oom_kill]
    /\ IF check_oom_killed(oom_kill)
       THEN /\ KillChild
            /\ resp' = Some(ResponseError(OomError(req), 0, now))
            /\ pc' = "done"
       ELSE /\ pc' = "s_sleep"
            /\ UNCHANGED << child, killSent, holder, resp >>
    /\ UNCHANGED unitVars
    /\ UNCHANGED << req, sandbox, mem, setupLog, filter, now, oom_kill >>
    /\ UNCHANGED ioVars /\ UNCHANGED monVars

StreamSleep ==
    /\ pc = "s_sleep"
    /\ Sleep("s_timeout")
    /\ UNCHANGED unitVars
    /\ UNCHANGED << req, sandbox, mem,
                    setupLog, filter, tick, oom_kill, resp >>
    /\ UNCHANGED ioVars /\ UNCHANGED childVars /\ UNCHANGED monVars

\* collect_remaining: one recv_timeout(100 ms) of the stream's loop.  Data
\* is appended, Error returns Err(IoCaptureError), Eof or an empty channel
\* (timeout or disconnected) ends the loop.
StreamDrain(s, next) ==
    /\ IF chan[s] = << >>
       THEN /\ pc' = next
            /\ UNCHANGED << chan, final, resp >>
       ELSE /\ chan' = [chan EXCEPT ![s] = Tail(@)]
            /\ CASE Head(chan[s])[1] = "Data" ->
                      /\ final' = [final EXCEPT ![s] = @ \o Head(chan[s])[2]]
                      /\ UNCHANGED << pc, resp >>
                 [] Head(chan[s])[1] = "Error" ->
                      /\ resp' = Some(ResponseOfErr("IoCaptureError", now))
                      /\ pc' = "done"
                      /\ final' = final
                 [] Head(chan[s])[1] = "Eof" ->
                      /\ pc' = next
                      /\ UNCHANGED << final, resp >>
    /\ UNCHANGED unitVars
    /\ UNCHANGED << req, sandbox, mem,
                    setupLog, filter, now, tick, written, pipe, drainer,
                    buf, total, sbuf, oom_kill >>
    /\ UNCHANGED childVars /\ UNCHANGED monVars

StreamDrainStdout ==
    /\ pc = "s_drain_out"
    /\ StreamDrain("stdout", "s_drain_err")

StreamDrainStderr ==
    /\ pc = "s_drain_err"
    /\ StreamDrain("stderr", "s_join_out")

\* collect_remaining: handle.join() of the stdout drainer.
StreamJoinStdout ==
    /\ pc = "s_join_out"
    /\ drainer["stdout"] # "reading"
    /\ pc' = "s_join_err"
    /\ UNCHANGED unitVars
    /\ UNCHANGED << req, sandbox, mem,
                    setupLog, filter, now, tick, oom_kill, resp >>
    /\ UNCHANGED ioVars /\ UNCHANGED childVars /\ UNCHANGED monVars

\* The buffers after collect_remaining returned its two Strings.
FinalBuffer(s) == sbuf[s] \o as_bytes(from_utf8_lossy(final[s]))

\* collect_remaining: handle.join() of the stderr drainer; then the exit
\* branch goes on: the signal check, then the Success response, whose
\* memory figure is one reading of sandbox.get_resource_usage() (0 if the
\* reading fails).
StreamFinish ==
    /\ pc = "s_join_err"
    /\ drainer["stderr"] # "reading"
    /\ sbuf' = [s \in Streams |-> FinalBuffer(s)]
    /\ IF child.st = "signaled"
       THEN resp' = Some(ResponseError(SignalError(child.val), 0, now))
       ELSE \E memory_bytes \in MemoryReadings :
               resp' = Some(ResponseSuccess(
                               child.val,
                               from_utf8_lossy(FinalBuffer("stdout")),
                               from_utf8_lossy(FinalBuffer("stderr")),
                               Metrics(memory_bytes), 0, now))
    /\ pc' = "done"
    /\ UNCHANGED unitVars
    /\ UNCHANGED << req, sandbox, mem,
                    setupLog, filter, now, tick, written, pipe, drainer,
                    buf, total, chan, final, oom_kill >>
    /\ UNCHANGED childVars /\ UNCHANGED monVars

(***************************************************************************)
(* execute returns: the Executor (`self`) is dropped and with it its       *)
(* Arc<Sandbox>.  The monitor thread holds a clone of the Arc for as long  *)
(* as monitoring_loop runs, so Sandbox::drop runs here only if that thread *)
(* has ended or was never started.                                         *)
(***************************************************************************)
SandboxRefs ==
    (IF sandbox.returned THEN 0 ELSE 1) + (IF monitor = "running" THEN 1 ELSE 0)

ExecutorDrop ==
    /\ resp # None
    /\ ~sandbox.returned
    /\ sandbox' = IF monitor = "running"
                  THEN [sandbox EXCEPT !.returned = TRUE]
                  ELSE SandboxDrop([sandbox EXCEPT !.returned = TRUE])
    /\ UNCHANGED unitVars
    /\ UNCHANGED << req, mem, pc, setupLog, filter, now, tick, oom_kill,
                    resp >>
    /\ UNCHANGED ioVars /\ UNCHANGED childVars /\ UNCHANGED monVars

(***************************************************************************)
(* The specification.                                                      *)
(***************************************************************************)
Supervisor ==
    \/ SetupStep \/ Spawn \/ ExecutorDrop
    \/ BatchCheckTimeout \/ BatchTimeoutReturn \/ BatchTryWait
    \/ BatchJoinStdout \/ BatchJoinStderr \/ BatchStopMonitor \/ BatchSuccess
    \/ BatchCheckOom \/ BatchOomReturn \/ BatchSleep
    \/ StreamCheckTimeout \/ StreamTryWait \/ StreamRecvStdout
    \/ StreamRecvStderr \/ StreamCheckOom \/ StreamSleep
    \/ StreamDrainStdout \/ StreamDrainStderr \/ StreamJoinStdout
    \/ StreamFinish

Drainers ==
    \E s \in Streams :
        \/ BatchRead(s) \/ BatchEof(s)
        \/ StreamRead(s) \/ StreamEof(s)

Environment ==
    \/ \E s \in Streams : ChildWrite(s) \/ ChildSigpipe(s)
    \/ ChildExit \/ ChildSignaled \/ DescendantExit \/ OomKill \/ Advance

Next == Supervisor \/ Drainers \/ MonitorExit \/ Environment

Spec == Init /\ [][Next]_vars

(***************************************************************************)
(* ResourceMonitor in detail (src/src/executor/monitor.rs), as the batch   *)
(* path of execute_command uses it: the thread runs monitoring_loop, the   *)
(* supervisor polls the child and calls stop_and_get_result.  One action   *)
(* per statement of the loop; the cgroup's memory use changes while the    *)
(* child runs.                                                             *)
(***************************************************************************)
\* cpu_time_us as get_usage reports it.
CpuReadings == {1000, 2000}

\* ResourceProvider::get_usage: Err, or the usage read now.
Err == << "Err" >>
Usage(memory_bytes, cpu_time_us) == << "Ok", memory_bytes, cpu_time_us >>
IsOk(sample) == sample[1] = "Ok"

\* A variant of the tracking that keeps the latest reading.
track_latest(max_memory, memory_bytes) == memory_bytes

\* if usage.memory_bytes > max_memory { max_memory = usage.memory_bytes }
track_max(max_memory, memory_bytes) ==
    IF memory_bytes > max_memory THEN memory_bytes ELSE max_memory

\* The MonitoringResult built from the locals when the loop is left.
MonitoringResult(m) ==
    [peak_memory |-> m.max_memory, total_cpu_time |-> m.final_cpu_time,
     oom_killed |-> m.oom_killed]

\* while !stop_flag.load(): the loop is left when the flag is set.
MonCheckStop ==
    /\ mon.pc = "check_stop"
    /\ mon' = IF mon.stop_flag
              THEN [mon EXCEPT !.pc = "done",
                               !.result = Some(MonitoringResult(mon))]
              ELSE [mon EXCEPT !.pc = "sample"]
    /\ UNCHANGED << execVars, poll, ctl, ns, fs, unit >>

\* provider.get_usage(): Ok updates max_memory and final_cpu_time, Err
\* changes nothing.
MonSample ==
    /\ mon.pc = "sample"
    /\ Len(mon.samples) < MaxSamples
    /\ \E sample \in {Err} \cup {Usage(mon.usage, c) : c \in CpuReadings} :
          mon' = IF IsOk(sample)
                 THEN [mon EXCEPT
                         !.pc = "check_oom",
                         !.samples = Append(@, sample),
                         !.max_memory = track_max(@, sample[2]),
                         !.final_cpu_time = sample[3],
                         !.fresh = @ \/ mon.exit_seen]
                 ELSE [mon EXCEPT !.pc = "check_oom",
                                  !.samples = Append(@, sample)]
    /\ UNCHANGED << execVars, poll, ctl, ns, fs, unit >>

\* A variant of the check that notes the kill and goes on sampling.
MonCheckOomNoBreak ==
    /\ mon.pc = "check_oom"
    /\ \E r \in {"true", "false", "err"} :
          mon' = IF r = "true"
                 THEN [mon EXCEPT !.pc = "sleep", !.oom_killed = TRUE,
                                  !.latched = TRUE]
                 ELSE [mon EXCEPT !.pc = "sleep"]
    /\ UNCHANGED << execVars, poll, ctl, ns, fs, unit >>

\* provider.check_oom_killed(): Ok(true) sets oom_killed and breaks out of
\* the loop; Ok(false) and Err go on to the sleep.
MonCheckOom ==
    /\ mon.pc = "check_oom"
    /\ \E r \in {"true", "false", "err"} :
          mon' = IF r = "true"
                 THEN [mon EXCEPT
                         !.pc = "done", !.oom_killed = TRUE,
                         !.latched = TRUE,
                         !.result = Some(MonitoringResult(
                                       [mon EXCEPT !.oom_killed = TRUE]))]
                 ELSE [mon EXCEPT !.pc = "sleep"]
    /\ UNCHANGED << execVars, poll, ctl, ns, fs, unit >>

\* thread::sleep(monitoring_interval)
MonSleep ==
    /\ mon.pc = "sleep"
    /\ mon' = [mon EXCEPT !.pc = "check_stop"]
    /\ UNCHANGED << execVars, poll, ctl, ns, fs, unit >>

\* The memory in use in the cgroup changes while the child runs.
MonUsageChange ==
    /\ mon.child = "running"
    /\ \E u \in MemoryReadings \ {mon.usage} :
          mon' = [mon EXCEPT !.usage = u,
                             !.high = IF u > @ THEN u ELSE @]
    /\ UNCHANGED << execVars, poll, ctl, ns, fs, unit >>

MonChildExit ==
    /\ mon.child = "running"
    /\ mon' = [mon EXCEPT !.child = "exited"]
    /\ UNCHANGED << execVars, poll, ctl, ns, fs, unit >>

\* The supervisor's try_wait returns the exit status.
MonSeeExit ==
    /\ mon.child = "exited"
    /\ ~mon.exit_seen
    /\ ~mon.stop_flag
    /\ mon' = [mon EXCEPT !.exit_seen = TRUE]
    /\ UNCHANGED << execVars, poll, ctl, ns, fs, unit >>

\* stop_and_get_result, first half: the flag is stored.  The supervisor
\* calls it in the exit branch, and on the timeout and OOM returns.
MonStop ==
    /\ ~mon.stop_flag
    /\ mon' = [mon EXCEPT !.stop_flag = TRUE]
    /\ UNCHANGED << execVars, poll, ctl, ns, fs, unit >>

\* stop_and_get_result, second half: handle.join() returns the result.
MonJoin ==
    /\ mon.stop_flag
    /\ mon.pc = "done"
    /\ ~mon.joined
    /\ mon' = [mon EXCEPT !.joined = TRUE]
    /\ UNCHANGED << execVars, poll, ctl, ns, fs, unit >>

MonitorNext ==
    \/ MonCheckStop \/ MonSample \/ MonCheckOom \/ MonSleep
    \/ MonUsageChange \/ MonChildExit
    \/ MonSeeExit \/ MonStop \/ MonJoin

MonitorSpec == Init /\ [][MonitorNext]_vars

(***************************************************************************)
(* The poll loop and the clock (src/src/executor/mod.rs, 150-271 and       *)
(* 293-414): each tick tests the deadline, then try_wait, then the OOM     *)
(* check, then sleeps.  Both loops have this shape; the I/O and the        *)
(* resource monitor are left out.  The child terminates at a time of its   *)
(* own, recorded in exit_at.                                               *)
(***************************************************************************)
\* child.kill(): a running child is killed now.
PollKill(p) ==
    IF p.child = "running"
    THEN [p EXCEPT !.killSent = TRUE, !.child = "signaled", !.exit_at = p.now]
    ELSE [p EXCEPT !.killSent = TRUE]

\* if start_time.elapsed() >= timeout_duration: kill, Timeout response.
PollCheckTimeout ==
    /\ poll.pc = "timeout"
    /\ poll' = IF DeadlinePassed(poll.now, req)
               THEN [PollKill(poll) EXCEPT !.pc = "done",
                                           !.status = Some("Timeout")]
               ELSE [poll EXCEPT !.pc = "wait"]
    /\ UNCHANGED << execVars, mon, ctl, ns, fs, unit >>

\* child.try_wait(): the exit branch (Success, or Error for a signal), the
\* still-running branch, or the error branch (kill, Err).
PollTryWait ==
    /\ poll.pc = "wait"
    /\ \E r \in (IF poll.child = "running" THEN {"running"}
                 ELSE {poll.child, "error"}) :
          poll' = CASE r = "running" -> [poll EXCEPT !.pc = "oom"]
                    [] r = "exited" ->
                         [poll EXCEPT !.pc = "done", !.status = Some("Success")]
                    [] r = "signaled" ->
                         [poll EXCEPT !.pc = "done", !.status = Some("Error")]
                    [] r = "error" ->
                         [PollKill(poll) EXCEPT !.pc = "done",
                                                !.status = Some("Error")]
    /\ UNCHANGED << execVars, mon, ctl, ns, fs, unit >>

\* if let Ok(true) = check_oom_killed(): kill, Error response.
PollCheckOom ==
    /\ poll.pc = "oom"
    /\ \E count \in 0..MaxOomKills :
          poll' = IF check_oom_killed(count)
                  THEN [PollKill(poll) EXCEPT !.pc = "done",
                                              !.status = Some("Error")]
                  ELSE [poll EXCEPT !.pc = "sleep"]
    /\ UNCHANGED << execVars, mon, ctl, ns, fs, unit >>

\* tokio::time::sleep(10 ms): at least PollMs pass.
PollSleep ==
    /\ poll.pc = "sleep"
    /\ \E t \in Instants(req) :
          /\ t >= poll.now + PollMs
          /\ poll' = [poll EXCEPT !.pc = "timeout", !.now = t]
    /\ UNCHANGED << execVars, mon, ctl, ns, fs, unit >>

\* Time passes within a tick, after its first check.
PollAdvance ==
    /\ poll.pc = "wait"
    /\ \E t \in Instants(req) :
          /\ t > poll.now
          /\ t <= req.timeout_ms
          /\ poll' = [poll EXCEPT !.now = t]
    /\ UNCHANGED << execVars, mon, ctl, ns, fs, unit >>

\* The child terminates, by exit or by a signal from outside.
PollChildEnds ==
    /\ poll.pc # "done"
    /\ poll.child = "running"
    /\ \E st \in {"exited", "signaled"} :
          poll' = [poll EXCEPT !.child = st, !.exit_at = poll.now]
    /\ UNCHANGED << execVars, mon, ctl, ns, fs, unit >>

PollNext ==
    \/ PollCheckTimeout \/ PollTryWait \/ PollCheckOom \/ PollSleep
    \/ PollAdvance \/ PollChildEnds

PollSpec == Init /\ [][PollNext]_vars

(***************************************************************************)
(* The sandbox controllers in detail (sandbox/namespaces.rs, cgroups.rs,   *)
(* filesystem.rs, mod.rs): the operations of Sandbox::setup on kernel      *)
(* files one by one, each of which the kernel may refuse, then the         *)
(* cleanup calls of Sandbox::cleanup and of the destructors.               *)
(***************************************************************************)

\* cpu_shares that validate_resources accepts: 1 ..= 10240.
MaxCpuShares == 10240
CpuShares == {1, 1024, 10000, 10001, MaxCpuShares}

\* The weights a cgroup v2 cpu.weight file takes.
CpuWeights == 1..10000

\* NamespaceManager::setup_namespaces: unshare, then setup_user_namespace,
\* which is write_uid_map, then write_gid_map, whose first statement is
\* deny_setgroups.
NamespaceOpsGidFirst == << "unshare", "uid_map", "gid_map", "setgroups" >>

NamespaceOps == << "unshare", "uid_map", "setgroups", "gid_map" >>

\* CgroupManager::setup: create_cgroup, set_memory_limit, set_cpu_limit,
\* set_pids_limit, set_io_limits, add_current_process.
CgroupOpsAttachFirst ==
    << "create_dir_all", "cgroup.subtree_control", "cgroup.procs",
       "memory.max", "memory.swap.max", "memory.low", "cpu.weight",
       "pids.max", "io.weight" >>

CgroupOps ==
    << "create_dir_all", "cgroup.subtree_control", "memory.max",
       "memory.swap.max", "memory.low", "cpu.weight", "pids.max",
       "io.weight", "cgroup.procs" >>

\* The limit files of the cgroup.
LimitFiles ==
    {"memory.max", "memory.swap.max", "memory.low", "cpu.weight",
     "pids.max", "io.weight"}

\* Sandbox::setup, as far as it writes: setup_namespaces, the cgroup
\* manager's setup, and the root directory of setup_isolation.
SetupOps == NamespaceOps \o CgroupOps \o << "create_root_filesystem" >>

\* What each operation writes.
WriteValue(op, c) ==
    CASE op = "uid_map" -> "0 uid 1"
      [] op = "setgroups" -> "deny"
      [] op = "gid_map" -> "0 gid 1"
      [] op = "cgroup.subtree_control" -> "+memory +cpu +pids +io"
      [] op = "memory.max" -> req.memory_bytes
      [] op = "memory.swap.max" -> 0
      [] op = "memory.low" -> req.memory_bytes \div 2
      [] op = "cpu.weight" -> c.cpu_shares
      [] op = "pids.max" -> "max_pids"
      [] op = "io.weight" -> 100
      [] op = "cgroup.procs" -> "pid"
      [] OTHER -> ""

\* The SandboxError a failed operation is mapped to.
ErrorOf(op) ==
    CASE op = "unshare" -> "NamespaceCreation"
      [] op \in {"uid_map", "setgroups", "gid_map"} -> "UserMapping"
      [] op = "create_root_filesystem" -> "FilesystemSetup"
      [] OTHER -> "CgroupSetup"

\* Sandbox::setup is called with the validated resource limits.
CtlBegin ==
    /\ ctl.pc = "new"
    /\ \E cpu_shares \in CpuShares :
         ctl' = [ctl EXCEPT !.pc = "setup", !.cpu_shares = cpu_shares]
    /\ UNCHANGED << execVars, mon, poll, ns, fs, unit >>

\* The next operation of setup: it succeeds and setup goes on, or it fails
\* and setup returns its error through the ? operators.
CtlSetupOp ==
    /\ ctl.pc = "setup"
    /\ LET op == SetupOps[ctl.next]
       IN \E ok \in BOOLEAN :
            ctl' = [ctl EXCEPT
                      !.log = Append(@, [op |-> op,
                                         value |-> WriteValue(op, ctl),
                                         ok |-> ok]),
                      !.next = IF ok THEN @ + 1 ELSE @,
                      !.err = IF ok THEN @ ELSE Some(ErrorOf(op)),
                      !.leaf = @ \/ (ok /\ op = "create_dir_all"),
                      !.attached = @ \/ (ok /\ op = "cgroup.procs"),
                      !.rootfs = @ \/ (ok /\ op = "create_root_filesystem"),
                      !.pc = IF ok /\ ctl.next < Len(SetupOps)
                             THEN "setup" ELSE "idle"]
    /\ UNCHANGED << execVars, mon, poll, ns, fs, unit >>

\* CgroupManager::cleanup and FilesystemManager::cleanup:
\* if path.exists() { remove_dir_all(path)? } Ok(())
cleanupUnguarded(exists, removed) ==
    [ok |-> exists /\ removed, exists |-> exists /\ ~removed]

cleanup(exists, removed) ==
    IF exists
    THEN [ok |-> removed, exists |-> ~removed]
    ELSE [ok |-> TRUE, exists |-> FALSE]

\* Where the control goes after a controller's cleanup has returned:
\* Sandbox::cleanup returns at the first error; Drop for Sandbox ignores
\* the result of Sandbox::cleanup, and then the fields are dropped in the
\* order of their declaration, cgroup_manager before filesystem_manager,
\* each destructor calling its cleanup.
AfterCleanupNoFieldDrop(at, ok) ==
    CASE at = "cleanup.cgroup" -> IF ok THEN "cleanup.rootfs" ELSE "idle"
      [] at = "cleanup.rootfs" -> "idle"
      [] at = "drop.cgroup" -> IF ok THEN "drop.rootfs" ELSE "dropped"
      [] at = "drop.rootfs" -> "dropped"
      [] at = "field.cgroup" -> "field.rootfs"
      [] OTHER -> "dropped"

AfterCleanup(at, ok) ==
    CASE at = "cleanup.cgroup" -> IF ok THEN "cleanup.rootfs" ELSE "idle"
      [] at = "cleanup.rootfs" -> "idle"
      [] at = "drop.cgroup" -> IF ok THEN "drop.rootfs" ELSE "field.cgroup"
      [] at = "drop.rootfs" -> "field.cgroup"
      [] at = "field.cgroup" -> "field.rootfs"
      [] OTHER -> "dropped"

\* Sandbox::cleanup is called by the owner of the sandbox.
CtlCleanup ==
    /\ ctl.pc = "idle"
    /\ ctl.calls < MaxCleanups
    /\ ctl' = [ctl EXCEPT !.pc = "cleanup.cgroup", !.calls = @ + 1]
    /\ UNCHANGED << execVars, mon, poll, ns, fs, unit >>

\* The sandbox is dropped: Drop for Sandbox calls Sandbox::cleanup.
CtlDrop ==
    /\ ctl.pc = "idle"
    /\ ctl' = [ctl EXCEPT !.pc = "drop.cgroup"]
    /\ UNCHANGED << execVars, mon, poll, ns, fs, unit >>

\* CgroupManager::cleanup.  A cgroup with a process in it is not removed.
CtlCgroupCleanup ==
    /\ ctl.pc \in {"cleanup.cgroup", "drop.cgroup", "field.cgroup"}
    /\ \E removed \in (IF ctl.attached THEN {FALSE} ELSE BOOLEAN) :
         LET r == cleanup(ctl.leaf, removed)
         IN ctl' = [ctl EXCEPT
                      !.leaf = r.exists,
                      !.attempts = Append(@, [at |-> ctl.pc,
                                              existed |-> ctl.leaf,
                                              ok |-> r.ok,
                                              changed |-> r.exists # ctl.leaf]),
                      !.pc = AfterCleanup(ctl.pc, r.ok)]
    /\ UNCHANGED << execVars, mon, poll, ns, fs, unit >>

\* FilesystemManager::cleanup.
CtlFilesystemCleanup ==
    /\ ctl.pc \in {"cleanup.rootfs", "drop.rootfs", "field.rootfs"}
    /\ \E removed \in BOOLEAN :
         LET r == cleanup(ctl.rootfs, removed)
         IN ctl' = [ctl EXCEPT
                      !.rootfs = r.exists,
                      !.attempts = Append(@, [at |-> ctl.pc,
                                              existed |-> ctl.rootfs,
                                              ok |-> r.ok,
                                              changed |-> r.exists # ctl.rootfs]),
                      !.pc = AfterCleanup(ctl.pc, r.ok)]
    /\ UNCHANGED << execVars, mon, poll, ns, fs, unit >>

ControllerNext ==
    \/ CtlBegin \/ CtlSetupOp \/ CtlCleanup \/ CtlDrop
    \/ CtlCgroupCleanup \/ CtlFilesystemCleanup

ControllerSpec == Init /\ [][ControllerNext]_vars

(***************************************************************************)
(* NamespaceManager::enter_namespaces (sandbox/namespaces.rs) and the two  *)
(* processes after its fork.  The child goes on with Sandbox::setup and    *)
(* execute, and ends with the exit code main derives from the response;    *)
(* the parent waits for it.                                                *)
(***************************************************************************)

\* The steps that follow the fork in the process that continues.
AfterFork ==
    << "setup_pid_namespace", "drop_capabilities", "seccomp_apply", "spawn" >>

Signals == {SIGKILL, SIGTERM}

\* main: the exit code for a response.
ExitCodeOf(status, exit_code) ==
    CASE status = "Success" -> exit_code
      [] status = "Error" -> 1
      [] status = "Timeout" -> 124
      [] status = "Killed" -> 128 + 9

\* The exit code the parent gives for the child's wait status.
Propagate(status) ==
    CASE status[1] = "Exited" -> status[2]
      [] status[1] = "Signaled" -> 128 + status[2]
      [] OTHER -> 1

\* unsafe { fork() }: an error is returned as NamespaceCreation.
NsFork ==
    /\ ns.parent = "fork"
    /\ \E ok \in BOOLEAN :
         ns' = IF ok
               THEN [ns EXCEPT !.parent = "waitpid", !.forked = TRUE,
                               !.child = AfterFork[1]]
               ELSE [ns EXCEPT !.parent = "returned"]
    /\ UNCHANGED << execVars, mon, poll, ctl, fs, unit >>

\* The child runs the next step of the chain; a step that fails makes
\* execute return an Error response, with which main exits.
NsChildStep ==
    /\ \E i \in DOMAIN AfterFork :
         /\ ns.child = AfterFork[i]
         /\ \E ok \in BOOLEAN :
              ns' = [ns EXCEPT
                       !.ran = @ \cup {<< "child", AfterFork[i] >>},
                       !.child = IF ~ok THEN "ended"
                                 ELSE IF i < Len(AfterFork)
                                      THEN AfterFork[i + 1] ELSE "supervise",
                       !.status = IF ok THEN @
                                  ELSE Some(<< "Exited",
                                               ExitCodeOf("Error", 0) >>)]
    /\ UNCHANGED << execVars, mon, poll, ctl, fs, unit >>

\* The child's execute returns a response, and main exits with its code.
NsChildExit ==
    /\ ns.child = "supervise"
    /\ \E status \in {"Success", "Error", "Timeout", "Killed"},
          exit_code \in ExitCodes :
         ns' = [ns EXCEPT !.child = "ended",
                          !.status = Some(<< "Exited",
                                             ExitCodeOf(status, exit_code) >>)]
    /\ UNCHANGED << execVars, mon, poll, ctl, fs, unit >>

\* The child is killed by a signal.
NsChildSignaled ==
    /\ ns.child \notin {"none", "ended"}
    /\ \E signal \in Signals :
         ns' = [ns EXCEPT !.child = "ended",
                          !.status = Some(<< "Signaled", signal >>)]
    /\ UNCHANGED << execVars, mon, poll, ctl, fs, unit >>

\* waitpid(child, None) returns the status of the terminated child, and the
\* parent exits.
NsParentExit ==
    /\ ns.parent = "waitpid"
    /\ ns.child = "ended"
    /\ ns' = [ns EXCEPT !.parent = "exited",
                        !.code = Some(Propagate(Get(ns.status)))]
    /\ UNCHANGED << execVars, mon, poll, ctl, fs, unit >>

\* waitpid(child, None) returns an error (EINTR while the child runs, or
\* ECHILD when SIGCHLD is ignored): the ? returns NamespaceCreation from
\* enter_namespaces and from Sandbox::setup, execute returns the Error
\* response, and main exits with the code of an Error response.
NsParentWaitErr ==
    /\ ns.parent = "waitpid"
    /\ ns' = [ns EXCEPT !.parent = "exited",
                        !.code = Some(ExitCodeOf("Error", 0))]
    /\ UNCHANGED << execVars, mon, poll, ctl, fs, unit >>

ForkNext ==
    \/ NsFork \/ NsChildStep \/ NsChildExit \/ NsChildSignaled
    \/ NsParentExit \/ NsParentWaitErr

ForkSpec == Init /\ [][ForkNext]_vars

(***************************************************************************)
(* FilesystemManager::setup_isolation (sandbox/filesystem.rs) step by      *)
(* step, with the mounts it makes for the paths the request declares.      *)
(***************************************************************************)

\* Host paths a request may name, and those of them that exist.
Paths == {"/data", "/etc", "/missing"}
Existing == {"/data", "/etc"}

\* The bind_mounts of a request: source, destination, readonly.
BindMounts == [source : {"/data"}, destination : Paths, readonly : BOOLEAN]

BindLists == UNION { [1..n -> BindMounts] : n \in 0..MaxBinds }

\* setup_isolation: each step is ended by ?.
IsolationStepsPivotFirst ==
    << "create_root_filesystem", "setup_essential_mounts", "pivot_root",
       "chdir_root", "setup_readonly_paths", "setup_writable_paths",
       "setup_bind_mounts", "setup_working_directory", "cleanup_old_root" >>

IsolationSteps ==
    << "create_root_filesystem", "setup_essential_mounts",
       "setup_readonly_paths", "setup_writable_paths", "setup_bind_mounts",
       "pivot_root", "chdir_root", "setup_working_directory",
       "cleanup_old_root" >>

\* bind_mount_readonly: MS_BIND, then MS_BIND | MS_REMOUNT | MS_RDONLY;
\* bind_mount_writable: MS_BIND only.  The new mount covers what was
\* mounted on the target before.
bind_mount(mounts, target, readonly) ==
    [mounts EXCEPT ![target] = Append(@, IF readonly THEN "ro" ELSE "rw")]

\* setup_readonly_paths / setup_writable_paths over the paths that exist:
\* the target is the path itself under the new root.
RECURSIVE MountPaths(_, _, _)
MountPaths(mounts, paths, readonly) ==
    IF paths = {} THEN mounts
    ELSE LET path == CHOOSE x \in paths : TRUE
         IN MountPaths(IF path \in Existing
                       THEN bind_mount(mounts, path, readonly) ELSE mounts,
                       paths \ {path}, readonly)

\* setup_bind_mounts, in the order of the list, for the sources that exist.
RECURSIVE MountBinds(_, _)
MountBinds(mounts, binds) ==
    IF binds = << >> THEN mounts
    ELSE LET b == Head(binds)
         IN MountBinds(IF b.source \in Existing
                       THEN bind_mount(mounts, b.destination, b.readonly)
                       ELSE mounts,
                       Tail(binds))

\* The mounts after a step that has succeeded.
MountsAfter(step, mounts, config) ==
    CASE step = "setup_readonly_paths" ->
            MountPaths(mounts, config.readonly_paths, TRUE)
      [] step = "setup_writable_paths" ->
            MountPaths(mounts, config.writable_paths, FALSE)
      [] step = "setup_bind_mounts" -> MountBinds(mounts, config.bind_mounts)
      [] OTHER -> mounts

\* The mounts a step can leave behind when it fails: those of a part of
\* its list.
MountsAtFailure(step, mounts, config) ==
    CASE step = "setup_readonly_paths" ->
            { MountPaths(mounts, done, TRUE) :
                done \in SUBSET config.readonly_paths }
      [] step = "setup_writable_paths" ->
            { MountPaths(mounts, done, FALSE) :
                done \in SUBSET config.writable_paths }
      [] step = "setup_bind_mounts" ->
            { MountBinds(mounts, SubSeq(config.bind_mounts, 1, n)) :
                n \in 0..Len(config.bind_mounts) }
      [] OTHER -> {mounts}

\* Whether the location is writable in the sandbox: the mount on top of it
\* is a read-write one.
Writable(mounts, path) ==
    /\ mounts[path] # << >>
    /\ mounts[path][Len(mounts[path])] = "rw"

\* setup_isolation is called with the request's IsolationConfig.
FsBegin ==
    /\ fs.pc = "new"
    /\ \E readonly_paths \in SUBSET Paths, writable_paths \in SUBSET Paths,
          bind_mounts \in BindLists :
         fs' = [fs EXCEPT !.pc = "setup",
                          !.config = [readonly_paths |-> readonly_paths,
                                      writable_paths |-> writable_paths,
                                      bind_mounts |-> bind_mounts]]
    /\ UNCHANGED << execVars, mon, poll, ctl, ns, unit >>

\* The next step of setup_isolation succeeds.
FsStepOk ==
    /\ fs.pc = "setup"
    /\ LET step == IsolationSteps[fs.next]
       IN fs' = [fs EXCEPT
                   !.log = Append(@, [step |-> step, ok |-> TRUE]),
                   !.mounts = MountsAfter(step, @, fs.config),
                   !.next = @ + 1,
                   !.pc = IF fs.next < Len(IsolationSteps)
                          THEN "setup" ELSE "done"]
    /\ UNCHANGED << execVars, mon, poll, ctl, ns, unit >>

\* The next step fails: setup_isolation returns FilesystemSetup.
FsStepErr ==
    /\ fs.pc = "setup"
    /\ LET step == IsolationSteps[fs.next]
       IN \E mounts \in MountsAtFailure(step, fs.mounts, fs.config) :
            fs' = [fs EXCEPT
                     !.log = Append(@, [step |-> step, ok |-> FALSE]),
                     !.mounts = mounts,
                     !.err = Some("FilesystemSetup"),
                     !.pc = "failed"]
    /\ UNCHANGED << execVars, mon, poll, ctl, ns, unit >>

IsolationNext == FsBegin \/ FsStepOk \/ FsStepErr

IsolationSpec == Init /\ [][IsolationNext]_vars

(***************************************************************************)
(* MacOSSandbox::check_oom_killed (sandbox/macos.rs).                      *)
(***************************************************************************)

\* The limits a sandbox may have, and the memory the host may report
\* around them.
MacLimits == {None, Some(MinMemoryBytes), Some(2 * MinMemoryBytes)}

MacReadings ==
    {0} \cup { l + d : l \in {MinMemoryBytes, 2 * MinMemoryBytes},
                       d \in {-1, 0, 1} }

\* if let Some(max_memory) = self.process_limits.max_memory_bytes
\*     { Ok(usage.memory_bytes > max_memory) } else { Ok(false) }
macos_check_oom_killed(max_memory_bytes, memory_bytes) ==
    IF IsSome(max_memory_bytes)
    THEN memory_bytes > Get(max_memory_bytes)
    ELSE FALSE

\* The sandbox is set up with or without a memory limit, and the child
\* uses some memory.
MacSetup ==
    /\ unit.mac.pc = "new"
    /\ \E max_memory_bytes \in MacLimits, memory_bytes \in MacReadings :
         unit' = [unit EXCEPT !.mac.pc = "ready",
                              !.mac.max_memory_bytes = max_memory_bytes,
                              !.mac.memory_bytes = memory_bytes]
    /\ UNCHANGED << execVars, mon, poll, ctl, ns, fs >>

\* check_oom_killed is called.
MacCheckOom ==
    /\ unit.mac.pc = "ready"
    /\ unit' = [unit EXCEPT
                  !.mac.pc = "checked",
                  !.mac.result =
                     Some(macos_check_oom_killed(unit.mac.max_memory_bytes,
                                                 unit.mac.memory_bytes))]
    /\ UNCHANGED << execVars, mon, poll, ctl, ns, fs >>

MacNext == MacSetup \/ MacCheckOom

MacSpec == Init /\ [][MacNext]_vars

(***************************************************************************)
(* TimeoutMonitor (executor/monitor.rs): a thread that sleeps for the      *)
(* timeout duration and then sends () on a channel whose receiver          *)
(* check_timeout polls.  The sender returned by new is kept and unused.    *)
(***************************************************************************)

\* self.receiver.try_recv(): takes a message out of the channel if there
\* is one.
try_recv(queue) ==
    IF queue > 0 THEN [ok |-> TRUE, queue |-> queue - 1]
    ELSE [ok |-> FALSE, queue |-> queue]

\* Time passes.
TmTick ==
    /\ unit.tm.now < MaxTicks
    /\ unit' = [unit EXCEPT !.tm.now = @ + 1]
    /\ UNCHANGED << execVars, mon, poll, ctl, ns, fs >>

\* The thread's sleep(timeout_duration) has ended: it sends ().
TmSend ==
    /\ unit.tm.now >= TimeoutTicks
    /\ ~unit.tm.sent
    /\ unit' = [unit EXCEPT !.tm.sent = TRUE, !.tm.queue = @ + 1]
    /\ UNCHANGED << execVars, mon, poll, ctl, ns, fs >>

\* check_timeout: self.receiver.try_recv().is_ok()
TmCheckTimeout ==
    /\ Len(unit.tm.calls) < MaxChecks
    /\ LET r == try_recv(unit.tm.queue)
       IN unit' = [unit EXCEPT
                     !.tm.queue = r.queue,
                     !.tm.calls = Append(@, [at |-> unit.tm.now,
                                             sent |-> unit.tm.sent,
                                             result |-> r.ok])]
    /\ UNCHANGED << execVars, mon, poll, ctl, ns, fs >>

TimeoutNext == TmTick \/ TmSend \/ TmCheckTimeout

TimeoutSpec == Init /\ [][TimeoutNext]_vars

(***************************************************************************)
(* ProcessMonitor (executor/monitor.rs) for a process that keeps running:  *)
(* the thread of monitor_process and the caller's stop_and_get_status.     *)
(***************************************************************************)

\* What one poll of monitor_process finds for a running process: on Linux
\* waitpid(pid, WNOHANG) gives StillAlive for a child of the caller and
\* ECHILD for any other process; elsewhere kill(pid, 0) finds it alive.
\* "continue" stands for going on to the sleep.
PollOf(linux, is_child) ==
    IF linux /\ ~is_child THEN "Unknown" ELSE "continue"

\* ProcessMonitor::new(pid) spawns the thread.
PmNew ==
    /\ unit.pm.pc = "new"
    /\ \E linux \in BOOLEAN, is_child \in BOOLEAN :
         unit' = [unit EXCEPT !.pm.pc = "check_stop", !.pm.linux = linux,
                              !.pm.is_child = is_child]
    /\ UNCHANGED << execVars, mon, poll, ctl, ns, fs >>

\* if stop_flag.load(Relaxed) { return Ok(ProcessStatus::Running) }
PmCheckStop ==
    /\ unit.pm.pc = "check_stop"
    /\ unit' = IF unit.pm.stop_flag
               THEN [unit EXCEPT !.pm.pc = "done",
                                 !.pm.result = Some("Running")]
               ELSE [unit EXCEPT !.pm.pc = "poll"]
    /\ UNCHANGED << execVars, mon, poll, ctl, ns, fs >>

\* The poll of the pid.
PmPoll ==
    /\ unit.pm.pc = "poll"
    /\ unit.pm.polls < MaxPolls
    /\ LET r == PollOf(unit.pm.linux, unit.pm.is_child)
       IN unit' = IF r = "continue"
                  THEN [unit EXCEPT !.pm.pc = "sleep", !.pm.polls = @ + 1]
                  ELSE [unit EXCEPT !.pm.pc = "done", !.pm.polls = @ + 1,
                                    !.pm.result = Some(r)]
    /\ UNCHANGED << execVars, mon, poll, ctl, ns, fs >>

\* thread::sleep ends.
PmSleep ==
    /\ unit.pm.pc = "sleep"
    /\ unit' = [unit EXCEPT !.pm.pc = "check_stop"]
    /\ UNCHANGED << execVars, mon, poll, ctl, ns, fs >>

\* stop_and_get_status: self.stop_flag.store(true, Relaxed)
PmStop ==
    /\ unit.pm.pc # "new"
    /\ ~unit.pm.stop_flag
    /\ unit' = [unit EXCEPT !.pm.stop_flag = TRUE]
    /\ UNCHANGED << execVars, mon, poll, ctl, ns, fs >>

\* stop_and_get_status: handle.join() returns the thread's result.
PmJoin ==
    /\ unit.pm.stop_flag
    /\ unit.pm.pc = "done"
    /\ unit.pm.status = None
    /\ unit' = [unit EXCEPT !.pm.status = unit.pm.result]
    /\ UNCHANGED << execVars, mon, poll, ctl, ns, fs >>

ProcessNext ==
    \/ PmNew \/ PmCheckStop \/ PmPoll \/ PmSleep \/ PmStop \/ PmJoin

ProcessSpec == Init /\ [][ProcessNext]_vars

(***************************************************************************)
(* The I/O statistics of a batch run (executor/io_stats.rs and the exit    *)
(* branch of execute_command): the child's counters live in /proc/<pid>/io *)
(* for as long as the process has not been reaped.                         *)
(***************************************************************************)

IoStatsDefault == [read_bytes |-> 0, write_bytes |-> 0]

\* get_process_io_stats(pid) on Linux: read_to_string("/proc/<pid>/io"),
\* an error once the process is gone.
get_process_io_stats(process, read_bytes, write_bytes) ==
    IF process = "reaped"
    THEN << "Err" >>
    ELSE << "Ok", [read_bytes |-> read_bytes, write_bytes |-> write_bytes] >>

\* io_monitor.get_total_stats().unwrap_or_default()
unwrap_or_default(r) == IF r[1] = "Ok" THEN r[2] ELSE IoStatsDefault

\* The child reads or writes a byte of storage.
IoChildReads ==
    /\ unit.io.child = "running"
    /\ unit.io.read_bytes < MaxIo
    /\ unit' = [unit EXCEPT !.io.read_bytes = @ + 1]
    /\ UNCHANGED << execVars, mon, poll, ctl, ns, fs >>

IoChildWrites ==
    /\ unit.io.child = "running"
    /\ unit.io.write_bytes < MaxIo
    /\ unit' = [unit EXCEPT !.io.write_bytes = @ + 1]
    /\ UNCHANGED << execVars, mon, poll, ctl, ns, fs >>

\* The child exits with a code.
IoChildExits ==
    /\ unit.io.child = "running"
    /\ unit' = [unit EXCEPT !.io.child = "zombie"]
    /\ UNCHANGED << execVars, mon, poll, ctl, ns, fs >>

\* child.try_wait() gives Ok(Some(status)): it has reaped the child, and
\* the exit branch is entered.  (Ok(None) leads to the next tick.)
IoTryWait ==
    /\ unit.io.pc = "try_wait"
    /\ unit.io.child = "zombie"
    /\ unit' = [unit EXCEPT !.io.child = "reaped", !.io.pc = "exit"]
    /\ UNCHANGED << execVars, mon, poll, ctl, ns, fs >>

\* The exit branch: wait_for_completion, stop_and_get_result, then
\* io_monitor.get_total_stats().unwrap_or_default() and the metrics.
IoMetrics ==
    /\ unit.io.pc = "exit"
    /\ LET io_stats ==
             unwrap_or_default(
                get_process_io_stats(unit.io.child, unit.io.read_bytes,
                                     unit.io.write_bytes))
       IN unit' = [unit EXCEPT
                     !.io.pc = "returned",
                     !.io.metrics =
                        Some([io_bytes_read |-> io_stats.read_bytes,
                              io_bytes_written |-> io_stats.write_bytes])]
    /\ UNCHANGED << execVars, mon, poll, ctl, ns, fs >>

IoNext ==
    \/ IoChildReads \/ IoChildWrites \/ IoChildExits \/ IoTryWait
    \/ IoMetrics

IoSpec == Init /\ [][IoNext]_vars

(***************************************************************************)
(* parse_size (main.rs).  A u64 is written [hi, lo] for hi * 2^34 + lo,    *)
(* with hi < 2^30 and lo < 2^34: 2^64 is 2^30 units of 2^34.  The numbers  *)
(* used have a lo so small that lo times the factor stays below 2^34, so   *)
(* that a product never carries from lo into hi.                           *)
(***************************************************************************)

Kibi == 1024

\* 2^30: the number of units of 2^34 in 2^64.
U64Units == Kibi * Kibi * Kibi

\* The factor of a suffix, after to_uppercase.
Factor(suffix) ==
    CASE suffix \in {"K", "k"} -> Kibi
      [] suffix \in {"M", "m"} -> Kibi * Kibi
      [] suffix \in {"G", "g"} -> Kibi * Kibi * Kibi
      [] OTHER -> 1

\* The suffixes: none, one of K, M, G in either case, or another letter.
\* For each suffix the numbers lie on both sides of the largest one whose
\* product fits a u64.
Suffixes == {"", "K", "k", "M", "m", "G", "g", "X"}

NumberParts(suffix) ==
    { [hi |-> hi, lo |-> lo] :
        hi \in {0, (U64Units \div Factor(suffix)) \div Kibi,
                U64Units \div Factor(suffix)} \ {U64Units},
        lo \in {0, 1} }

\* A size string: the number part (None if it does not parse as a u64)
\* and the suffix.
SizeStrings ==
    UNION { { << Some(n), suffix >> : n \in NumberParts(suffix) }
            \cup { << None, suffix >> } : suffix \in Suffixes }

\* The mathematical product, not reduced.
Product(number, factor) ==
    [hi |-> number.hi * factor, lo |-> number.lo * factor]

\* number * 1024 ... on u64: the product if it fits; otherwise the build
\* decides: a panic with overflow checks, the product modulo 2^64 without.
WrappingMul(number, factor, overflow_checks) ==
    LET p == Product(number, factor)
    IN IF p.hi < U64Units THEN << "Ok", p >>
       ELSE IF overflow_checks THEN << "panic" >>
       ELSE << "Ok", [hi |-> p.hi % U64Units, lo |-> p.lo] >>

\* parse_size: trim and to_uppercase, strip_suffix K, M or G, parse the
\* rest as u64 (Config error if that fails), multiply; without one of the
\* suffixes the whole string is parsed, which fails for another letter.
parse_size(size_str, overflow_checks) ==
    LET number == size_str[1]
        suffix == size_str[2]
    IN IF suffix \in {"K", "k", "M", "m", "G", "g"}
       THEN IF number = None THEN << "Config" >>
            ELSE WrappingMul(Get(number), Factor(suffix), overflow_checks)
       ELSE IF number = None \/ suffix # "" THEN << "Config" >>
            ELSE << "Ok", Get(number) >>

\* parse_size is called on an argument, in a build with or without
\* overflow checks.
CliParseSize ==
    /\ unit.cli.pc = "new"
    /\ \E size_str \in SizeStrings, overflow_checks \in BOOLEAN :
         unit' = [unit EXCEPT
                    !.cli.pc = "parsed",
                    !.cli.size_str = size_str,
                    !.cli.result = Some(parse_size(size_str, overflow_checks))]
    /\ UNCHANGED << execVars, mon, poll, ctl, ns, fs >>

CliNext == CliParseSize

CliSpec == Init /\ [][CliNext]_vars

(***************************************************************************)
(* Properties of execute.                                                  *)
(***************************************************************************)

\* C1: execute always comes to return, whatever the child does: as long as
\* no response has been returned, the supervisor or one of the threads it
\* waits for can take a step, so that the return never depends on what the
\* child or a descendant holding a pipe does; and a response returned has
\* one of the four statuses.
C1_ExecuteReturns ==
    /\ resp = None => ENABLED (Supervisor \/ Drainers \/ MonitorExit)
    /\ resp # None =>
          Get(resp).status \in {"Success", "Error", "Timeout", "Killed"}

\* C2: a Success response has an exit code and no error; any other response
\* has an error and no exit code.
C2_ExitCodeXorError ==
    resp # None =>
       IF Get(resp).status = "Success"
       THEN IsSome(Get(resp).exit_code) /\ ~IsSome(Get(resp).error)
       ELSE IsSome(Get(resp).error) /\ ~IsSome(Get(resp).exit_code)

\* A non-Success response returned after the child ran: the signalled exit.
C2_Witness ==
    /\ resp # None
    /\ Get(resp).status = "Error"
    /\ tick.wait = "signaled"
    /\ IsSome(Get(resp).error)

\* C3: in every Success response the lengths of stdout and stderr together
\* are at most max_output_bytes.
C3_CombinedOutputBounded ==
    (resp # None /\ Get(resp).status = "Success") =>
       StrLen(Get(Get(resp).stdout)) + StrLen(Get(Get(resp).stderr))
          <= req.max_output_bytes

\* C4: when the child wrote more than max_output_bytes to a stream and the
\* last tick saw it exit normally (so neither the timeout nor the OOM check
\* ended the run), the response is Error with code E3006.
C4_OverflowIsE3006 ==
    (/\ resp # None
     /\ tick.wait = "exited"
     /\ \E s \in Streams : written[s] > req.max_output_bytes)
    => (/\ Get(resp).status = "Error"
        /\ Get(Get(resp).error).code = "E3006")

\* C5: a tick whose first check reads elapsed >= timeout_ms kills the child
\* and stops the monitor at once, and the response is Timeout with code
\* E3001, details {timeout_ms, elapsed_ms} and no exit code, streams or
\* metrics; a Timeout response only comes from such a tick.
C5_TimeoutAtDeadline ==
    /\ tick.elapsed >= req.timeout_ms =>
          /\ killSent
          /\ ~Running
          /\ stop_flag \/ monitor = "none"
          /\ pc \in {"b_timeout_join", "done"}
    /\ (resp # None /\ tick.elapsed >= req.timeout_ms) =>
          /\ Get(resp).status = "Timeout"
          /\ Get(Get(resp).error).code = "E3001"
          /\ DOMAIN Get(Get(Get(resp).error).details)
                = {"timeout_ms", "elapsed_ms"}
          /\ Get(Get(Get(resp).error).details).timeout_ms = req.timeout_ms
          /\ Get(Get(Get(resp).error).details).elapsed_ms >= req.timeout_ms
          /\ Get(resp).exit_code = None
          /\ Get(resp).stdout = None
          /\ Get(resp).stderr = None
          /\ Get(resp).metrics = None
          /\ monitor # "running"
    /\ (resp # None /\ Get(resp).status = "Timeout") =>
          tick.elapsed >= req.timeout_ms

\* A Timeout response for a child that ran until the supervisor killed it.
C5_Witness ==
    /\ resp # None
    /\ Get(resp).status = "Timeout"
    /\ killSent
    /\ child = [st |-> "signaled", val |-> SIGKILL]
    /\ oom_kill = 0

\* C6: when try_wait reports an exit by signal K, the response is Error
\* with code E3003 and details.signal = K.
C6_SignalIsE3003 ==
    (resp # None /\ tick.wait = "signaled") =>
       /\ Get(resp).status = "Error"
       /\ Get(Get(resp).error).code = "E3003"
       /\ Get(Get(Get(resp).error).details).signal = child.val

\* C7: the OOM check is made only in a tick whose deadline check failed and
\* whose try_wait saw the child running; when it reads oom_kill > 0 the
\* child is killed and the monitor stopped at once, and the response is
\* Error with code E4002 and details.memory_limit = memory_bytes.
C7_OomAtTick ==
    /\ tick.oom >= 0 =>
          /\ tick.elapsed < req.timeout_ms
          /\ tick.wait = "running"
    /\ tick.oom > 0 =>
          /\ killSent
          /\ ~Running
          /\ stop_flag \/ monitor = "none"
          /\ pc \in {"b_oom_join", "done"}
    /\ (resp # None /\ tick.oom > 0) =>
          /\ Get(resp).status = "Error"
          /\ Get(resp).error =
                Some([code |-> "E4002",
                      details |-> Some([memory_limit |-> req.memory_bytes])])
          /\ monitor # "running"

\* An OOM response for the request with the larger memory limit.
C7_Witness ==
    /\ resp # None
    /\ tick.oom > 0
    /\ tick.wait = "running"
    /\ req.memory_bytes = 2 * MinMemoryBytes
    /\ Get(Get(resp).error).code = "E4002"

\* C8: when the last tick saw the child exited, with an exit code or by
\* SIGKILL, and the cgroup's oom_kill counter is > 0, the response is Error
\* with code E4002.
C8_OomWinsOverExit ==
    (/\ resp # None
     /\ oom_kill > 0
     /\ \/ tick.wait = "exited"
        \/ tick.wait = "signaled" /\ child.val = SIGKILL)
    => (/\ Get(resp).status = "Error"
        /\ Get(Get(resp).error).code = "E4002")

\* C9: the deadline check comes first in a tick: with oom_kill > 0, a tick
\* that reads elapsed >= timeout_ms answers Timeout, and a tick that reads
\* elapsed < timeout_ms and sees the child running answers E4002.
C9_TimeoutBeforeOom ==
    resp # None =>
       /\ (tick.elapsed >= req.timeout_ms /\ oom_kill > 0) =>
             Get(resp).status = "Timeout"
       /\ (/\ tick.elapsed >= 0
           /\ tick.elapsed < req.timeout_ms
           /\ tick.wait = "running"
           /\ oom_kill > 0) =>
             /\ Get(resp).status # "Timeout"
             /\ Get(Get(resp).error).code = "E4002"

\* A Timeout response although the OOM killer had acted in the cgroup.
C9_Witness ==
    /\ resp # None
    /\ Get(resp).status = "Timeout"
    /\ oom_kill > 0
    /\ tick.elapsed >= req.timeout_ms

\* C10: the steps of Sandbox::setup are started in the fixed order, each
\* after all earlier ones succeeded; a failure is the last step started and
\* ends execute; the filter holds the network pack iff isolation.network
\* once composed, is loaded only by the last step, and the child is spawned
\* only with the filter loaded.
C10_SetupOrder ==
    LET order == << "setup_namespaces", "cgroup_setup", "setup_isolation",
                    "seccomp_compose", "enter_namespaces",
                    "drop_capabilities", "seccomp_apply" >>
        n == Len(setupLog)
    IN  /\ n <= 7
        /\ \A i \in 1..n : setupLog[i].step = order[i]
        /\ \A i \in 1..(n - 1) : setupLog[i].outcome = "ok"
        /\ (n > 0 /\ setupLog[n].outcome # "ok") =>
              /\ pc = "done"
              /\ resp # None
              /\ Get(resp).status = "Error"
              /\ child.st = "none"
        /\ (n >= 4 /\ setupLog[4].outcome = "ok") =>
              filter.rules = IF req.network THEN {"allowlist", "network"}
                             ELSE {"allowlist"}
        /\ n < 4 => filter.rules = {}
        /\ filter.loaded <=> (n = 7 /\ setupLog[7].outcome = "ok")
        /\ child.st # "none" => filter.loaded

\* The whole chain succeeded for the request with network access.
C10_Witness ==
    /\ Len(setupLog) = 7
    /\ setupLog[7].outcome = "ok"
    /\ filter.loaded
    /\ req.network
    /\ child.st = "running"

\* C11: a child process exists only after every step of Sandbox::setup has
\* succeeded: the namespaces, the cgroup with the supervisor attached, the
\* pivot into the root filesystem, the capability drop and the filter load.
C11_SpawnAfterSetup ==
    child.st # "none" =>
       /\ \A step \in {"setup_namespaces", "cgroup_setup", "setup_isolation",
                       "seccomp_compose", "enter_namespaces",
                       "drop_capabilities", "seccomp_apply"} :
             \E i \in 1..Len(setupLog) :
                setupLog[i] = [step |-> step, outcome |-> "ok"]
       /\ \A i \in 1..Len(setupLog) : setupLog[i].outcome = "ok"
       /\ sandbox.leaf /\ sandbox.attached
       /\ sandbox.rootfs /\ sandbox.pivoted
       /\ filter.loaded

\* A child that has run and exited in the completed sandbox.
C11_Witness ==
    /\ child.st = "exited"
    /\ sandbox.attached
    /\ sandbox.pivoted
    /\ filter.loaded

\* C12: when a step of Sandbox::setup fails, execute returns a response of
\* status Error whose code is the one of the failing step (namespace E2001
\* or, for the user maps, E2006; cgroup E2002; seccomp E2003; filesystem
\* E2004; capability drop E2005), without exit code, streams or metrics.
C12_SetupFailureResponse ==
    LET n == Len(setupLog) IN
    (n > 0 /\ setupLog[n].outcome # "ok") =>
       /\ resp # None
       /\ Get(resp).status = "Error"
       /\ IsSome(Get(resp).error)
       /\ Get(Get(resp).error).code =
             ( CASE setupLog[n].step = "setup_namespaces" ->
                       IF setupLog[n].outcome = "UserMapping"
                       THEN "E2006" ELSE "E2001"
                 [] setupLog[n].step = "cgroup_setup" -> "E2002"
                 [] setupLog[n].step = "setup_isolation" -> "E2004"
                 [] setupLog[n].step = "seccomp_compose" -> "E2003"
                 [] setupLog[n].step = "enter_namespaces" -> "E2001"
                 [] setupLog[n].step = "drop_capabilities" -> "E2005"
                 [] setupLog[n].step = "seccomp_apply" -> "E2003" )
       /\ Get(resp).exit_code = None
       /\ Get(resp).stdout = None
       /\ Get(resp).stderr = None
       /\ Get(resp).metrics = None

\* The filesystem setup failed after the cgroup had been set up.
C12_Witness ==
    /\ Len(setupLog) = 3
    /\ setupLog[3].outcome = "FilesystemSetup"
    /\ resp # None
    /\ Get(Get(resp).error).code = "E2004"

\* C13: once execute has returned, on whatever path, the sandbox's cleanup
\* has run: no reference to the Sandbox outlives the return, so that its
\* destructor has been executed by then.
C13_CleanupAtReturn ==
    sandbox.returned => (SandboxRefs = 0 /\ sandbox.dropped)

\* C14: when a step of Sandbox::setup failed after earlier steps succeeded,
\* then, once execute has returned its Error response and the executor is
\* dropped, neither the cgroup leaf nor the root directory created by the
\* earlier steps exists any more.
C14_PartialSetupReleased ==
    (/\ sandbox.returned
     /\ Len(setupLog) > 1
     /\ setupLog[Len(setupLog)].outcome # "ok")
    => (/\ sandbox.dropped
        /\ ~sandbox.leaf
        /\ ~sandbox.rootfs)

\* C15 (as stated): every error code of a response belongs to the set
\* E1001, E2001..E2006, E3001, E3003, E3006, E4002, E6001, E6003.
C15_ClosedCodeSet ==
    (resp # None /\ IsSome(Get(resp).error)) =>
       Get(Get(resp).error).code \in
          {"E1001", "E2001", "E2002", "E2003", "E2004", "E2005", "E2006",
           "E3001", "E3003", "E3006", "E4002", "E6001", "E6003"}

\* C15 (amended): every error code of a response belongs to that set
\* extended by E3004 (I/O capture error) and E3005 (monitoring error), the
\* codes of the two errors that can be propagated out of the poll loop.
C15_ClosedCodeSetWithLoopErrors ==
    (resp # None /\ IsSome(Get(resp).error)) =>
       Get(Get(resp).error).code \in
          {"E1001", "E2001", "E2002", "E2003", "E2004", "E2005", "E2006",
           "E3001", "E3003", "E3004", "E3005", "E3006", "E4002", "E6001",
           "E6003"}

\* A failing try_wait has been propagated out of the batch poll loop.
C15_Witness ==
    /\ resp # None
    /\ tick.wait = "error"
    /\ ~IsStreaming(req)
    /\ Get(Get(resp).error).code = "E3005"

\* C16: the I/O capture cannot deadlock the child.  Whenever the running
\* child faces a full pipe, either the pipe's read end is open and its own
\* drainer can read now, whatever the other stream and the supervisor's
\* poll loop are doing, or the read end is closed and the write ends the
\* child with SIGPIPE.
C16_NoPipeDeadlock ==
    \A s \in Streams :
       (Running /\ Len(pipe[s]) = PipeCap) =>
          IF ReadEndOpen(s)
          THEN ENABLED (BatchRead(s) \/ StreamRead(s))
          ELSE ENABLED ChildSigpipe(s)

\* Streaming mode: the child faces two full pipes while the supervisor has
\* not yet taken the events the drainers have queued.
C16_Witness ==
    /\ IsStreaming(req)
    /\ Running
    /\ \A s \in Streams :
          /\ Len(pipe[s]) = PipeCap
          /\ ReadEndOpen(s)
          /\ chan[s] # << >>

\* C17: within each stream order is preserved and nothing is lost or
\* duplicated: in a Success response stdout, and likewise stderr, is the
\* lossy decode of exactly the bytes the child wrote to that stream, in the
\* order written.
C17_OutputExact ==
    (resp # None /\ Get(resp).status = "Success") =>
       /\ Get(Get(resp).stdout) =
             from_utf8_lossy([k \in 1..written["stdout"] |->
                                 Payload("stdout", k)])
       /\ Get(Get(resp).stderr) =
             from_utf8_lossy([k \in 1..written["stderr"] |->
                                 Payload("stderr", k)])

\* The number of bytes carried by the Data events of a channel queue.
RECURSIVE DataBytes(_)
DataBytes(q) ==
    IF q = << >> THEN 0
    ELSE (IF Head(q)[1] = "Data" THEN Len(Head(q)[2]) ELSE 0)
         + DataBytes(Tail(q))

\* C18: captured output is bounded.  At every moment the bytes held for one
\* stream (the drainer's buffer in batch mode; the channel queue plus the
\* supervisor's buffer in streaming mode) do not exceed max_output_bytes,
\* and a drainer that has detected an overflow has stopped reading, so that
\* it sends no further Data.
C18_CapturedBounded ==
    \A s \in Streams :
       /\ Len(buf[s]) <= req.max_output_bytes
       /\ DataBytes(chan[s]) + Len(sbuf[s]) <= req.max_output_bytes
       /\ total[s] > req.max_output_bytes => drainer[s] = "done"

\* C19: in both modes a resource monitor is started after the child is
\* spawned, and the max_memory_bytes of a Success response is the peak
\* tracked by that monitor.
C19_PeakFromMonitor ==
    (resp # None /\ Get(resp).status = "Success") =>
       /\ monitor # "none"
       /\ IsSome(mem)
       /\ Get(Get(resp).metrics).max_memory_bytes = Get(mem)

\* C20: on every path by which execute returns after the resource monitor
\* was started, the supervisor has set the monitor's stop flag and the
\* monitor thread has terminated.
C20_MonitorStoppedAtReturn ==
    (resp # None /\ monitor # "none") =>
       (stop_flag /\ monitor = "finished")

(***************************************************************************)
(* Properties of the resource monitor.                                     *)
(***************************************************************************)
\* The largest memory_bytes among the successful samples, 0 without one.
RECURSIVE PeakOf(_)
PeakOf(samples) ==
    IF samples = << >> THEN 0
    ELSE LET rest == PeakOf(SubSeq(samples, 1, Len(samples) - 1))
             last == samples[Len(samples)]
         IN IF IsOk(last) /\ last[2] > rest THEN last[2] ELSE rest

\* The cpu_time_us of the last successful sample, 0 without one.
RECURSIVE LastCpuOf(_)
LastCpuOf(samples) ==
    IF samples = << >> THEN 0
    ELSE IF IsOk(samples[Len(samples)]) THEN samples[Len(samples)][3]
    ELSE LastCpuOf(SubSeq(samples, 1, Len(samples) - 1))

\* C21: in a Success response the memory and CPU figures incorporate a
\* reading taken at or after the moment the child's exit was observed, so
\* that the memory the child used between the monitor's last sample and
\* its exit is not missing: when the supervisor has seen the exit and
\* received the monitor's result, a sample succeeded after the exit was
\* seen and peak_memory is at least the child's largest memory use.
C21_MetricsReadAfterExit ==
    (mon.joined /\ mon.exit_seen) =>
       /\ mon.fresh
       /\ Get(mon.result).peak_memory >= mon.high

\* C23: for any sequence of samples, peak_memory is the maximum
\* memory_bytes over the successful samples (0 if there were none) and
\* total_cpu_time the cpu_time_us of the last successful sample, at every
\* moment of the monitoring and in the result returned; so peak_memory
\* never decreases and a failed sample changes neither value.
C23_PeakAndLastCpu ==
    /\ mon.max_memory = PeakOf(mon.samples)
    /\ mon.final_cpu_time = LastCpuOf(mon.samples)
    /\ IsSome(mon.result) =>
          /\ Get(mon.result).peak_memory = PeakOf(mon.samples)
          /\ Get(mon.result).total_cpu_time = LastCpuOf(mon.samples)

\* A result after a sample followed by a smaller one: the peak is the first.
C23_Witness ==
    /\ mon.joined
    /\ Len(mon.samples) = 2
    /\ IsOk(mon.samples[1]) /\ IsOk(mon.samples[2])
    /\ mon.samples[1][2] > mon.samples[2][2]
    /\ Get(mon.result).peak_memory = mon.samples[1][2]
    /\ Get(mon.result).total_cpu_time = mon.samples[2][3]

\* C24: the OOM flag is a latch that ends sampling.  Once a
\* check_oom_killed has returned true the thread has left the loop with a
\* result whose oom_killed is true, whether or not the stop flag is set,
\* and takes no further sample; and a result has oom_killed only if a check
\* returned true.
C24_OomLatch ==
    /\ mon.latched =>
          /\ mon.pc = "done"
          /\ IsSome(mon.result)
          /\ Get(mon.result).oom_killed
    /\ IsSome(mon.result) => (Get(mon.result).oom_killed <=> mon.latched)
    /\ mon.oom_killed <=> mon.latched

\* The thread has ended on the latch while the stop flag is not set.
C24_Witness ==
    /\ mon.latched
    /\ ~mon.stop_flag
    /\ mon.pc = "done"
    /\ Get(mon.result).oom_killed

(***************************************************************************)
(* Properties of the poll loop.                                            *)
(***************************************************************************)
\* C22: a child that terminated strictly before the deadline is never
\* reported as Timeout: a Timeout response is given only when the child
\* was still running at the deadline.
C22_NoTimeoutAfterExit ==
    poll.status = Some("Timeout") => poll.exit_at >= req.timeout_ms

(***************************************************************************)
(* Further properties of execute.                                          *)
(***************************************************************************)
\* C29: on every path on which execute returns after a successful spawn,
\* the child has either been observed by try_wait to have terminated or
\* has been sent a kill.
C29_ExitedOrKilled ==
    (resp # None /\ child.st # "none") =>
       (tick.wait \in {"exited", "signaled"} \/ killSent)

\* execute has returned on a tick whose try_wait saw the child running (the
\* OOM return), after a kill.
C29_Witness ==
    /\ resp # None
    /\ tick.wait = "running"
    /\ killSent
    /\ child.st = "signaled" /\ child.val = SIGKILL

(***************************************************************************)
(* Properties of the sandbox controllers.                                  *)
(***************************************************************************)

\* C25: in CgroupManager::setup the process is written to cgroup.procs only
\* after memory.max, memory.swap.max, memory.low, cpu.weight, pids.max and
\* io.weight have each been written with success; and once one of these
\* writes has failed, setup has returned CgroupSetup, cgroup.procs has not
\* been written and the process is not attached to the leaf.
C25_AttachAfterLimits ==
    /\ \A i \in DOMAIN ctl.log :
         ctl.log[i].op = "cgroup.procs" =>
           \A f \in LimitFiles :
             \E j \in 1..(i - 1) : ctl.log[j].op = f /\ ctl.log[j].ok
    /\ (\E i \in DOMAIN ctl.log :
          ctl.log[i].op \in LimitFiles /\ ~ctl.log[i].ok) =>
         /\ ctl.err = Some("CgroupSetup")
         /\ ~ctl.attached
         /\ \A k \in DOMAIN ctl.log : ctl.log[k].op # "cgroup.procs"

\* setup has attached the process to the leaf.
C25_Witness ==
    /\ ctl.attached
    /\ \E i \in DOMAIN ctl.log : ctl.log[i].op = "cgroup.procs" /\ ctl.log[i].ok

\* C26: for every cpu_shares that validation accepts, the value written to
\* cpu.weight lies in the cgroup v2 weight range 1..10000.
C26_CpuWeightClamped ==
    \A i \in DOMAIN ctl.log :
      ctl.log[i].op = "cpu.weight" => ctl.log[i].value \in CpuWeights

\* C27: a cleanup of a controller whose path is absent returns Ok and
\* changes nothing; so, after a call of Sandbox::cleanup that has removed
\* what there was, every cleanup of the destructors returns Ok and changes
\* nothing, and the dropped sandbox is as the call had left it.
C27_CleanupIdempotent ==
    /\ \A i \in DOMAIN ctl.attempts :
         ~ctl.attempts[i].existed =>
           ctl.attempts[i].ok /\ ~ctl.attempts[i].changed
    /\ \A i \in DOMAIN ctl.attempts :
         ctl.attempts[i].at = "cleanup.rootfs" /\ ctl.attempts[i].ok =>
           /\ ~ctl.leaf /\ ~ctl.rootfs
           /\ \A j \in DOMAIN ctl.attempts :
                j > i => ctl.attempts[j].ok /\ ~ctl.attempts[j].changed

\* A call of Sandbox::cleanup has removed the leaf and has returned Ok, and
\* the sandbox has been dropped after it: the four cleanups of the drop
\* found the paths absent.
C27_Witness ==
    /\ ctl.pc = "dropped"
    /\ Len(ctl.attempts) = 6
    /\ ctl.attempts[1].at = "cleanup.cgroup" /\ ctl.attempts[1].changed
    /\ ctl.attempts[2].at = "cleanup.rootfs" /\ ctl.attempts[2].ok
    /\ \A j \in 3..6 : ~ctl.attempts[j].existed

\* C28: once the sandbox is dropped, the cleanup of the cgroup and the
\* cleanup of the root directory have both been attempted in the course of
\* the drop, whether or not one of them has failed.
C28_DropAttemptsBoth ==
    ctl.pc = "dropped" =>
      /\ \E i \in DOMAIN ctl.attempts :
           ctl.attempts[i].at \in {"drop.cgroup", "field.cgroup"}
      /\ \E i \in DOMAIN ctl.attempts :
           ctl.attempts[i].at \in {"drop.rootfs", "field.rootfs"}

\* The drop in which the removal of the cgroup leaf has failed, and the
\* removal of the root directory has been attempted and has failed too.
C28_Witness ==
    /\ ctl.pc = "dropped"
    /\ \E i \in DOMAIN ctl.attempts :
         ctl.attempts[i].at = "drop.cgroup" /\ ~ctl.attempts[i].ok
    /\ \E i \in DOMAIN ctl.attempts :
         ctl.attempts[i].at = "field.rootfs" /\ ~ctl.attempts[i].ok

\* C30: setup_namespaces proceeds in the order unshare, uid_map, setgroups,
\* gid_map: gid_map is written only after "deny" has been written to
\* setgroups with success, uid_map before setgroups, and no map or
\* setgroups is written unless unshare has succeeded before.
C30_NamespaceOrder ==
    \A i \in DOMAIN ctl.log :
      /\ ctl.log[i].op = "gid_map" =>
           \E j \in 1..(i - 1) : /\ ctl.log[j].op = "setgroups"
                                 /\ ctl.log[j].value = "deny"
                                 /\ ctl.log[j].ok
      /\ ctl.log[i].op = "setgroups" =>
           \E j \in 1..(i - 1) : ctl.log[j].op = "uid_map" /\ ctl.log[j].ok
      /\ ctl.log[i].op \in {"uid_map", "setgroups", "gid_map"} =>
           \E j \in 1..(i - 1) : ctl.log[j].op = "unshare" /\ ctl.log[j].ok

\* The gid_map has been written.
C30_Witness ==
    \E i \in DOMAIN ctl.log : ctl.log[i].op = "gid_map" /\ ctl.log[i].ok

(***************************************************************************)
(* Properties of the setup chain's errors.                                 *)
(***************************************************************************)
\* C31: a failure inside the namespace controller (setup_namespaces or
\* enter_namespaces) is reported in the response with error code E2001.
C31_NamespaceFailureIsE2001 ==
    LET n == Len(setupLog) IN
    (/\ n > 0
     /\ setupLog[n].step \in {"setup_namespaces", "enter_namespaces"}
     /\ setupLog[n].outcome # "ok") =>
       /\ resp # None
       /\ IsSome(Get(resp).error)
       /\ Get(Get(resp).error).code = "E2001"

(***************************************************************************)
(* Properties of enter_namespaces.                                         *)
(***************************************************************************)
\* C32: after the fork only the child runs the rest of the setup chain and
\* the spawn; the parent runs none of these steps, and when it has exited
\* the child has terminated and the parent's exit code is the child's exit
\* code, or 128 + signal if a signal killed the child.
C32_OnlyChildContinues ==
    /\ \A s \in ns.ran : s[1] = "child"
    /\ (ns.forked /\ ns.parent = "exited") =>
         /\ ns.child = "ended"
         /\ IsSome(ns.status)
         /\ ns.code = Some(IF Get(ns.status)[1] = "Exited"
                           THEN Get(ns.status)[2]
                           ELSE 128 + Get(ns.status)[2])

(***************************************************************************)
(* Properties of the network flag.                                         *)
(***************************************************************************)
\* The namespaces setup_namespaces(enable_network) unshares.
UnshareFlags(enable_network) ==
    {"USER", "PID", "MNT", "IPC", "UTS"}
    \cup (IF ~enable_network THEN {"NET"} ELSE {})

\* network_syscalls of with_network_access.
NetworkPack ==
    {"socket", "bind", "listen", "accept", "accept4", "connect",
     "getsockname", "getpeername", "sendto", "recvfrom", "sendmsg",
     "recvmsg", "shutdown", "setsockopt", "getsockopt"}

\* Some of the allowed_syscalls of setup_allowlist, none of which is a
\* socket call.
BaseSyscalls == {"read", "write", "close", "openat", "fcntl", "ioctl"}

\* The first argument of a call, as far as a rule compares it.
Arg0 == {"AF_UNIX", "AF_INET", "CLONE_THREAD", "other"}

\* Whether a filter with these rules allows the call: a rule of
\* setup_allowlist or of add_conditional_rules (clone with CLONE_THREAD,
\* socket with AF_UNIX), or a rule of with_network_access; everything else
\* meets the default action KillProcess.
Admits(rules, syscall, arg0) ==
    \/ /\ "allowlist" \in rules
       /\ \/ syscall \in BaseSyscalls
          \/ syscall = "clone" /\ arg0 = "CLONE_THREAD"
          \/ syscall = "socket" /\ arg0 = "AF_UNIX"
    \/ /\ "network" \in rules
       /\ syscall \in NetworkPack

\* C33: once the filter is loaded, the network flag has governed both
\* mechanisms alike.  With network = false the NET namespace is among the
\* namespaces unshared, the filter admits socket for AF_UNIX only and none
\* of bind, listen, accept, accept4, connect, sendto, recvfrom, sendmsg,
\* recvmsg; with network = true the NET namespace is not unshared and the
\* filter admits the whole socket pack as well as the base allowlist.
C33_NetworkConsistent ==
    filter.loaded =>
      IF req.network
      THEN /\ "NET" \notin UnshareFlags(req.network)
           /\ \A s \in NetworkPack \cup BaseSyscalls, a \in Arg0 :
                Admits(filter.rules, s, a)
      ELSE /\ "NET" \in UnshareFlags(req.network)
           /\ \A a \in Arg0 :
                Admits(filter.rules, "socket", a) <=> a = "AF_UNIX"
           /\ \A s \in {"bind", "listen", "accept", "accept4", "connect",
                        "sendto", "recvfrom", "sendmsg", "recvmsg"},
                 a \in Arg0 : ~Admits(filter.rules, s, a)
           /\ \A s \in BaseSyscalls, a \in Arg0 : Admits(filter.rules, s, a)

\* The filter is loaded for a request without network.
C33_Witness ==
    /\ filter.loaded
    /\ ~req.network
    /\ pc # "setup"

(***************************************************************************)
(* Properties of setup_isolation.                                          *)
(***************************************************************************)
\* C34: setup_isolation runs its steps in the order create rootfs, essential
\* mounts, readonly paths, writable paths, bind mounts, pivot_root and
\* chdir to /, working directory, removal of old_root: the steps started
\* are a prefix of that order, so every mount of a declared path comes
\* before pivot_root; a failed step is the last one started, and it ends
\* the chain with FilesystemSetup, whose code is E2004.
C34_IsolationOrder ==
    LET order == << "create_root_filesystem", "setup_essential_mounts",
                    "setup_readonly_paths", "setup_writable_paths",
                    "setup_bind_mounts", "pivot_root", "chdir_root",
                    "setup_working_directory", "cleanup_old_root" >>
    IN /\ Len(fs.log) <= Len(order)
       /\ \A i \in DOMAIN fs.log : fs.log[i].step = order[i]
       /\ \A i \in DOMAIN fs.log :
            ~fs.log[i].ok =>
               /\ i = Len(fs.log)
               /\ fs.pc = "failed"
               /\ fs.err = Some("FilesystemSetup")
               /\ ErrorCodeOf(Get(fs.err)) = "E2004"
       /\ \A i, j \in DOMAIN fs.log :
            (/\ fs.log[i].step = "pivot_root"
             /\ fs.log[j].step \in {"setup_readonly_paths",
                                    "setup_writable_paths",
                                    "setup_bind_mounts"}) =>
               j < i /\ fs.log[j].ok
       /\ fs.pc = "done" =>
            Len(fs.log) = Len(order) /\ \A i \in DOMAIN fs.log : fs.log[i].ok

\* setup_isolation has failed at pivot_root, after the mounts of a request
\* that declares a path of each kind.
C34_Witness ==
    /\ fs.pc = "failed"
    /\ Len(fs.log) = 6
    /\ fs.log[6].step = "pivot_root" /\ ~fs.log[6].ok
    /\ fs.config.readonly_paths # {}
    /\ fs.config.writable_paths # {}
    /\ fs.config.bind_mounts # << >>

\* C35: after setup_isolation has succeeded, every existing path of
\* readonly_paths is read-only in the sandbox, whatever writable_paths and
\* bind_mounts declare for the same location.
C35_ReadonlyStaysReadonly ==
    fs.pc = "done" =>
      \A path \in fs.config.readonly_paths \cap Existing :
        ~Writable(fs.mounts, path)

(***************************************************************************)
(* Properties of the components used on their own.                         *)
(***************************************************************************)
\* C36: on the POSIX host check_oom_killed returns true exactly when a
\* memory limit is set and the current memory is at least the limit, and
\* false when no limit is set.
C36_OomAtLimit ==
    IsSome(unit.mac.result) =>
      (Get(unit.mac.result) <=>
         /\ IsSome(unit.mac.max_memory_bytes)
         /\ unit.mac.memory_bytes >= Get(unit.mac.max_memory_bytes))

\* C37: check_timeout returns false at every call made before the timeout
\* duration has elapsed, and true at every call made after the expiry (the
\* thread has sent), also at a repeated call.
C37_TimeoutStaysObservable ==
    \A i \in DOMAIN unit.tm.calls :
      /\ unit.tm.calls[i].at < TimeoutTicks => ~unit.tm.calls[i].result
      /\ unit.tm.calls[i].sent => unit.tm.calls[i].result

\* C38: for a process that is still running, stop_and_get_status returns
\* ProcessStatus::Running, however the thread's polling interleaves with
\* the store of the stop flag, and whether or not the pid is a child of
\* the caller.
C38_RunningIsReported ==
    IsSome(unit.pm.status) => Get(unit.pm.status) = "Running"

\* C39: in the Success response of a batch run, metrics.io_bytes_read and
\* metrics.io_bytes_written are the child's cumulative read and write
\* byte counters as of its exit.
C39_IoBytesOfChild ==
    IsSome(unit.io.metrics) =>
      /\ Get(unit.io.metrics).io_bytes_read = unit.io.read_bytes
      /\ Get(unit.io.metrics).io_bytes_written = unit.io.write_bytes

\* C40: parse_size returns exactly n * 1024^k for n followed by K, M or G
\* in either case, n itself for a bare number, or a Config error: a value
\* returned is never different from the mathematical product.
C40_ParseSizeExact ==
    IsSome(unit.cli.result) =>
      LET r == Get(unit.cli.result)
          number == unit.cli.size_str[1]
          suffix == unit.cli.size_str[2]
          k == CASE suffix \in {"K", "k"} -> 1
                 [] suffix \in {"M", "m"} -> 2
                 [] suffix \in {"G", "g"} -> 3
                 [] OTHER -> 0
          f == IF k = 0 THEN 1
               ELSE IF k = 1 THEN 1024
               ELSE IF k = 2 THEN 1024 * 1024 ELSE 1024 * 1024 * 1024
      IN \/ r = << "Config" >>
         \/ /\ r[1] = "Ok"
            /\ number # None
            /\ suffix # "X"
            /\ r[2] = [hi |-> Get(number).hi * f, lo |-> Get(number).lo * f]

====
